---- MODULE Spec2Model ----
(***************************************************************************)
(* A model of portfolio_source_collector: the aggregation engine           *)
(* (services/balance_service.py), the gateway socket client                *)
(* (adapters/interactive_brokers.py) and the price resolution engine       *)
(* (services/price_service.py, utils/currency.py).                         *)
(*                                                                         *)
(* The venue adapters (adapters/bybit.py, binance.py, tinkoff.py) and the  *)
(* registration of adapters from the settings (core/config.py,             *)
(* BalanceService._build_adapters) follow.                                 *)
(*                                                                         *)
(* The components share no state, so each has its own specification        *)
(* (SpecAgg, SpecGw, SpecPrice, SpecBybit, SpecBinance, SpecTinkoff,       *)
(* SpecBuild, SpecIb) over the one set of variables; a specification       *)
(* leaves the other components' variables at their initial values.         *)
(***************************************************************************)
EXTENDS Integers, Sequences, FiniteSets, TLC

VARIABLES
    \* ---- aggregation engine (BalanceService) ----
    adapters,      \* self._adapters: the injected adapters, in order
    aggPc,         \* position of the caller: "idle", "loop", "done", "raised"
    aggOp,         \* the service method being called
    aggIdx,        \* index of the adapter the for loop is at
    balances,      \* fetch_all's local list `balances`
    aggResult,     \* what the call returned (NoResult before it returns)
    aggRaised,     \* the exception class that left the call, or "none"
    aggCalled,     \* indices of the adapters whose fetch_* was called, in order
    aggLog,        \* severities logged by the handlers, in order
    \* ---- gateway socket client (_IBAccountClient) ----
    account_filter,   \* the account_filter the client was built with
    gwPc,             \* position of the thread that called fetch()
    now,              \* time.time() - start, in sleep intervals
    connected,        \* the socket is open (between connect and disconnect)
    thread,           \* the background thread: "notstarted", "running", "exited"
    requested,        \* requests issued to the gateway, in order
    summary_done,     \* threading.Event
    positions_done,   \* threading.Event
    gwBalances,       \* self.balances
    net_liquidations, \* self.net_liquidations
    gwPositions,      \* self.positions
    gwError,          \* self.error: NoMsg or the message, as [code, text]
    gwDelivered,      \* number of callbacks the gateway has delivered
    gwSteps,          \* what fetch() did after its wait loop, in order
    gwExit,           \* how the wait loop ended ("break", "timeout") and the
                      \* signals that were set then
    gwRaised,         \* the message of the BrokerError fetch() raised, or NoMsg
    firedNonBenign,   \* history: messages of the error callbacks with a
                      \* non-benign code that fired during the fetch, in order
    firedBenign,      \* history: benign codes whose error callback fired
    cbRaised,         \* history: error codes whose callback raised ValueError
    \* ---- price resolution engine (PriceService.fetch_usd_prices) ----
    symbols,       \* the argument: a set of strings
    prPc,          \* position in fetch_usd_prices
    candidates,    \* the local set `candidates`
    price_map,     \* the local dict `price_map`
    unresolved,    \* the local set `unresolved`
    results,       \* the dict `results` of the ticker stage that is running
    todo,          \* symbols the running stage's `for symbol in symbols` has left
    cur,           \* the symbol that loop is at ("" when between symbols)
    qi,            \* index of the quote the inner loop is at
    phase,         \* "direct" or "inverse" pairs
    prRequests,    \* history: the network requests made, in order, each with
                   \* the price the stage made of its answer (NonePrice: it
                   \* failed) and the number in the answer it was made of
    prHanded,      \* history: the set each stage was handed
    prWrites,      \* history: which stage wrote which key of price_map
    prRaised,      \* the exception class that left fetch_usd_prices, or "none"
    \* ---- a venue adapter running one fetch_balances / fetch_positions ----
    adPc,          \* position in the adapter method
    adStep,        \* index of the sub-source / account the method is at
    adOut,         \* the records appended so far (`balances`, `positions`)
    adEarn,        \* exchange A's local list `earn_positions`
    adRaised,      \* the exception class that left the call, or "none"
    adCalls,       \* history: the requests the call made and the answers they got
    adCache,       \* the brokerage adapter's self._instrument_cache
    adAccounts,    \* the brokerage adapter's configured account_ids, account_id
    adOp,          \* the brokerage adapter's method that is running
    adIds,         \* its local list `account_ids`
    adRows,        \* the positions of the current account still to be read
    adFetches,     \* history: the number of fetch calls the instance has served
    \* ---- adapter registration and construction ----
    settings,      \* self._settings: the four venue configurations
    bdPc,          \* "idle", "building", "built", "constructed", "raised"
    bdIdx,         \* the venue _build_adapters is at, as an index of BuildOrder
    bdAdapters,    \* _build_adapters' local list `adapters` / self._adapters
    bdLog,         \* venues whose "Skipping ..." line was logged, in order
    bdCtor,        \* history: the constructors that ran, with what they did
    bdRaised       \* the exception class that left the call, or "none"

aggVars == <<adapters, aggPc, aggOp, aggIdx, balances, aggResult, aggRaised,
             aggCalled, aggLog>>

gwVars == <<account_filter, gwPc, now, connected, thread, requested, summary_done,
            positions_done, gwBalances, net_liquidations, gwPositions, gwError,
            gwDelivered, gwSteps, gwExit, gwRaised, firedNonBenign, firedBenign,
            cbRaised>>

prVars == <<symbols, prPc, candidates, price_map, unresolved, results, todo, cur, qi,
            phase, prRequests, prHanded, prWrites, prRaised>>

\* the brokerage adapter's own state
adTk == <<adCache, adAccounts, adOp, adIds, adRows, adFetches>>

adVars == <<adPc, adStep, adOut, adEarn, adRaised, adCalls, adTk>>

bdVars == <<settings, bdPc, bdIdx, bdAdapters, bdLog, bdCtor, bdRaised>>

vars == <<aggVars, gwVars, prVars, adVars, bdVars>>

None == "None"

\* self.error = None: no message
NoMsg == [code |-> 0, text |-> <<>>]

\* account_filter = None (like the empty list, it is falsy: no filter)
NoFilter == <<>>

\* the wait loop has not ended yet
NoExit == [how |-> "none", summary |-> FALSE, positions |-> FALSE]

\* The gateway client before any client is built (the state the other
\* components' specifications keep it in).
GwIdle ==
    /\ account_filter = NoFilter
    /\ gwPc = "idle"
    /\ now = 0
    /\ connected = FALSE
    /\ thread = "notstarted"
    /\ requested = <<>>
    /\ summary_done = FALSE
    /\ positions_done = FALSE
    /\ gwBalances = <<>>
    /\ net_liquidations = <<>>
    /\ gwPositions = <<>>
    /\ gwError = NoMsg
    /\ gwDelivered = 0
    /\ gwSteps = <<>>
    /\ gwExit = NoExit
    /\ gwRaised = NoMsg
    /\ firedNonBenign = <<>>
    /\ firedBenign = {}
    /\ cbRaised = {}

\* dict(): the empty mapping
EmptyDict == [k \in {} |-> 0]

\* The price engine before any call.
PrIdle ==
    /\ symbols = {}
    /\ prPc = "idle"
    /\ candidates = {}
    /\ price_map = EmptyDict
    /\ unresolved = {}
    /\ results = EmptyDict
    /\ todo = {}
    /\ cur = <<>>
    /\ qi = 0
    /\ phase = "direct"
    /\ prRequests = <<>>
    /\ prHanded = {}
    /\ prWrites = {}
    /\ prRaised = "none"

\* TinkoffConfig with no account id configured
NoAccounts == [account_ids |-> <<>>, account_id |-> "None"]

\* No adapter method is running.
AdIdle ==
    /\ adPc = "idle"
    /\ adStep = 0
    /\ adOut = <<>>
    /\ adEarn = <<>>
    /\ adRaised = "none"
    /\ adCalls = <<>>
    /\ adCache = EmptyDict
    /\ adAccounts = NoAccounts
    /\ adOp = "none"
    /\ adIds = <<>>
    /\ adRows = <<>>
    /\ adFetches = 0

\* Settings() with no credential set: the defaults of core/config.py
NoSettings ==
    [tinkoff |-> [token |-> "None"],
     bybit   |-> [api_key |-> "None", api_secret |-> "None"],
     binance |-> [api_key |-> "None", api_secret |-> "None"],
     ibkr    |-> [host |-> "None", port |-> <<>>, client_id |-> <<>>,
                  ibapi_path |-> "None"]]

\* No service is being built and no adapter constructed.
BdIdle ==
    /\ settings = NoSettings
    /\ bdPc = "idle"
    /\ bdIdx = 0
    /\ bdAdapters = <<>>
    /\ bdLog = <<>>
    /\ bdCtor = <<>>
    /\ bdRaised = "none"

\* fetch_all has not returned
NoResult == [returned |-> FALSE, value |-> <<>>]

\* The aggregation engine before any service is built.
AggIdle ==
    /\ adapters = <<>>
    /\ aggPc = "idle"
    /\ aggOp = None
    /\ aggIdx = 0
    /\ balances = <<>>
    /\ aggResult = NoResult
    /\ aggRaised = "none"
    /\ aggCalled = <<>>
    /\ aggLog = <<>>


(***************************************************************************)
(* Exceptions.  core/errors.py declares the broker errors; HTTPError is    *)
(* httpx.HTTPError, the others are Python built-ins.                       *)
(***************************************************************************)
ExcParent ==
    [ AuthenticationError |-> "BrokerError",
      RateLimitError      |-> "BrokerError",
      NormalizationError  |-> "BrokerError",
      BrokerError         |-> "Exception",
      HTTPError           |-> "Exception",
      HTTPStatusError     |-> "HTTPError",
      ConnectError        |-> "HTTPError",
      ValueError          |-> "Exception",
      TypeError           |-> "Exception",
      ZeroDivisionError   |-> "Exception",
      AttributeError      |-> "Exception",
      Exception           |-> "BaseException",
      BaseException       |-> "BaseException" ]

RECURSIVE IsInstance(_, _)
IsInstance(exc, cls) ==
    IF exc = cls THEN TRUE
    ELSE IF exc = "BaseException" THEN FALSE
    ELSE IsInstance(ExcParent[exc], cls)

\* What an adapter's fetch_* may do: return its records, or raise.
AdapterOutcomes == {"none", "BrokerError", "AuthenticationError", "HTTPError", "ValueError"}

\* The record lists an adapter may emit (records are opaque here).
BalanceLists == {<<>>, <<1>>, <<2, 1>>}
PositionLists == {<<>>, <<7>>}

MaxAdapters == 3

AdapterSet ==
    [exc : {"none"}, recs : BalanceLists, positions : PositionLists]
    \cup [exc : AdapterOutcomes \ {"none"}, recs : {<<>>}, positions : PositionLists]

AdapterLists == UNION {[1..n -> AdapterSet] : n \in 0..MaxAdapters}

(***************************************************************************)
(* BalanceService.fetch_all                                                *)
(***************************************************************************)
\* The methods class BalanceService defines.
ServiceMethods == {"__init__", "_build_adapters", "fetch_all"}

\* The except clauses of fetch_all, tried in order: the log severity of the
\* clause that catches exc, or "propagate" when none does.
ExceptHandlerNoGeneric(exc) ==
    IF IsInstance(exc, "BrokerError") \/ IsInstance(exc, "HTTPError") THEN "warning"
    ELSE "propagate"

ExceptHandler(exc) ==
    IF IsInstance(exc, "BrokerError") \/ IsInstance(exc, "HTTPError") THEN "warning"
    ELSE IF IsInstance(exc, "Exception") THEN "exception"
    ELSE "propagate"

\* balances.extend(adapter.fetch_balances())
ExtendPrepend(acc, recs) == recs \o acc

Extend(acc, recs) == acc \o recs

AggInit ==
    /\ adapters \in AdapterLists
    /\ aggPc = "idle"
    /\ aggOp = None
    /\ aggIdx = 0
    /\ balances = <<>>
    /\ aggResult = NoResult
    /\ aggRaised = "none"
    /\ aggCalled = <<>>
    /\ aggLog = <<>>

\* service.fetch_all() is called: balances = []
FetchAllCall ==
    /\ aggPc \in {"idle", "done", "raised"}
    /\ aggPc' = "loop"
    /\ aggOp' = "fetch_all"
    /\ aggIdx' = 1
    /\ balances' = <<>>
    /\ aggResult' = NoResult
    /\ aggRaised' = "none"
    /\ aggCalled' = <<>>
    /\ aggLog' = <<>>
    /\ UNCHANGED adapters

\* One iteration of `for adapter in self._adapters`.
FetchAllStep ==
    /\ aggPc = "loop"
    /\ aggOp = "fetch_all"
    /\ aggIdx <= Len(adapters)
    /\ LET a == adapters[aggIdx] IN
        /\ aggCalled' = Append(aggCalled, aggIdx)
        /\ IF a.exc = "none"
           THEN /\ balances' = Extend(balances, a.recs)
                /\ aggIdx' = aggIdx + 1
                /\ UNCHANGED <<aggPc, aggRaised, aggLog>>
           ELSE IF ExceptHandler(a.exc) = "propagate"
           THEN /\ aggPc' = "raised"
                /\ aggRaised' = a.exc
                /\ UNCHANGED <<balances, aggIdx, aggLog>>
           ELSE /\ aggLog' = Append(aggLog, ExceptHandler(a.exc))
                /\ aggIdx' = aggIdx + 1
                /\ UNCHANGED <<balances, aggPc, aggRaised>>
    /\ UNCHANGED <<adapters, aggOp, aggResult>>

\* The loop is over: return balances
FetchAllReturn ==
    /\ aggPc = "loop"
    /\ aggOp = "fetch_all"
    /\ aggIdx > Len(adapters)
    /\ aggPc' = "done"
    /\ aggResult' = [returned |-> TRUE, value |-> balances]
    /\ UNCHANGED <<adapters, aggOp, aggIdx, balances, aggRaised, aggCalled, aggLog>>

\* service.fetch_positions() is called (cli/main.py line 52, the unit test):
\* the attribute lookup on the instance decides what happens.
FetchPositionsCall ==
    /\ aggPc \in {"idle", "done", "raised"}
    /\ aggOp' = "fetch_positions"
    /\ aggIdx' = 0
    /\ balances' = <<>>
    /\ aggResult' = NoResult
    /\ aggCalled' = <<>>
    /\ aggLog' = <<>>
    /\ IF "fetch_positions" \in ServiceMethods
       THEN /\ aggPc' = "loop"
            /\ aggRaised' = "none"
       ELSE /\ aggPc' = "raised"
            /\ aggRaised' = "AttributeError"
    /\ UNCHANGED adapters

AggNext ==
    \/ FetchAllCall /\ UNCHANGED <<gwVars, prVars, adVars, bdVars>>
    \/ FetchAllStep /\ UNCHANGED <<gwVars, prVars, adVars, bdVars>>
    \/ FetchAllReturn /\ UNCHANGED <<gwVars, prVars, adVars, bdVars>>
    \/ FetchPositionsCall /\ UNCHANGED <<gwVars, prVars, adVars, bdVars>>

AggSpecInit == AggInit /\ GwIdle /\ PrIdle /\ AdIdle /\ BdIdle

SpecAgg == AggSpecInit /\ [][AggNext]_vars

\* The caller's thread keeps running the loop it is in.
SpecAggFair ==
    /\ SpecAgg
    /\ WF_vars(FetchAllStep /\ UNCHANGED <<gwVars, prVars, adVars, bdVars>>)
    /\ WF_vars(FetchAllReturn /\ UNCHANGED <<gwVars, prVars, adVars, bdVars>>)

(***************************************************************************)
(* Claims about the aggregation engine                                     *)
(***************************************************************************)
\* The concatenation of field f of the first k adapters that did not raise.
RECURSIVE ConcatOfSucceeded(_, _, _)
ConcatOfSucceeded(as, f, k) ==
    IF k = 0 THEN <<>>
    ELSE ConcatOfSucceeded(as, f, k - 1)
         \o (IF as[k].exc = "none" THEN as[k][f] ELSE <<>>)

SomeAdapterRaises == \E i \in 1..Len(adapters) : adapters[i].exc # "none"

\* C1: when some adapter raises from fetch_balances, fetch_all returns exactly
\* the concatenation of the other adapters' balances, in adapter order and in
\* each adapter's emission order, and every adapter (also those after the
\* failing one) was called, once, in order.
Thm_C1 ==
    (aggOp = "fetch_all" /\ aggPc = "done" /\ SomeAdapterRaises)
        => /\ aggResult.returned
           /\ aggResult.value = ConcatOfSucceeded(adapters, "recs", Len(adapters))
           /\ aggCalled = [k \in 1..Len(adapters) |-> k]

\* C1 witness: fetch_all returned with a failing adapter between two adapters
\* that emitted records.
Wit_C1 ==
    /\ aggOp = "fetch_all" /\ aggPc = "done"
    /\ Len(adapters) = 3
    /\ adapters[1].exc = "none" /\ adapters[1].recs = <<2, 1>>
    /\ adapters[2].exc # "none"
    /\ adapters[3].exc = "none" /\ adapters[3].recs = <<1>>
    /\ aggResult.value = <<2, 1, 1>>

\* C2: fetch_all never raises, whatever the adapters raise (broker error,
\* transport error, any other exception): it always ends by returning a
\* sequence, the empty one when every adapter fails.
Thm_C2 ==
    /\ [](aggOp = "fetch_all" => (aggPc # "raised" /\ aggRaised = "none"))
    /\ []((aggOp = "fetch_all" /\ aggPc = "done")
            => /\ aggResult.returned
               /\ aggResult.value \in Seq({1, 2})
               /\ (\A i \in 1..Len(adapters) : adapters[i].exc # "none")
                     => aggResult.value = <<>>)
    /\ ((aggOp = "fetch_all" /\ aggPc = "loop") ~> (aggOp = "fetch_all" /\ aggPc = "done"))

\* C2 witness: fetch_all returned the empty sequence after three adapters
\* failed, one with an exception that is neither a broker nor a transport error.
Wit_C2 ==
    /\ aggOp = "fetch_all" /\ aggPc = "done"
    /\ Len(adapters) = 3
    /\ adapters[1].exc = "BrokerError"
    /\ adapters[2].exc = "HTTPError"
    /\ adapters[3].exc = "ValueError"
    /\ aggResult.value = <<>>
    /\ aggLog = <<"warning", "warning", "exception">>

\* C3: the engine exposes fetch_positions(): a call on a service built from
\* injected adapters raises nothing and returns the concatenation of the
\* positions of the adapters that succeeded.
Claim_C3 ==
    aggOp = "fetch_positions"
        => /\ aggRaised = "none"
           /\ aggPc # "raised"
           /\ aggPc = "done"
                => aggResult.value = ConcatOfSucceeded(adapters, "positions", Len(adapters))

(***************************************************************************)
(* Gateway socket client: _IBAccountClient and its _Client callbacks       *)
(* (adapters/interactive_brokers.py).                                      *)
(*                                                                         *)
(* Strings the code takes apart (int(), endswith) are sequences of         *)
(* one-character strings.  The gateway and the ibapi library are the       *)
(* environment: connect() succeeds, the library's run() loop delivers the  *)
(* gateway's messages to the callbacks on the background thread, and the   *)
(* gateway answers a request only after it was issued.                     *)
(***************************************************************************)
DigitVal ==
    [ c \in {"0", "1", "2", "3", "4", "5", "6", "7", "8", "9"} |->
        CASE c = "0" -> 0 [] c = "1" -> 1 [] c = "2" -> 2 [] c = "3" -> 3
          [] c = "4" -> 4 [] c = "5" -> 5 [] c = "6" -> 6 [] c = "7" -> 7
          [] c = "8" -> 8 [] c = "9" -> 9 ]

RECURSIVE DecimalValue(_)
DecimalValue(s) ==
    IF s = <<>> THEN 0
    ELSE DecimalValue(SubSeq(s, 1, Len(s) - 1)) * 10 + DigitVal[s[Len(s)]]

\* Python's int(s) on a string of the model: its value when s is a non-empty
\* run of decimal digits, and ValueError otherwise.
PyInt(s) ==
    IF s # <<>> /\ \A i \in 1..Len(s) : s[i] \in DOMAIN DigitVal
    THEN [raises |-> "none", value |-> DecimalValue(s)]
    ELSE [raises |-> "ValueError", value |-> 0]

\* s.endswith(suffix)
EndsWith(s, suffix) ==
    /\ Len(suffix) <= Len(s)
    /\ SubSeq(s, Len(s) - Len(suffix) + 1, Len(s)) = suffix

\* benign = {2104, 2106, 2158}
benign == {2104, 2106, 2158}

\* The test error() makes before it records a message:
\* `int(errorString) not in benign`: "record", "ignore", or "ValueError" when
\* the test itself raised.
ShouldRecord(errorCode, errorString) ==
    IF PyInt(errorString).raises = "ValueError" THEN "ValueError"
    ELSE IF PyInt(errorString).value \notin benign THEN "record"
    ELSE "ignore"

\* outer_msg = f"IB error {errorCode}: {errorString}"
OuterMsg(errorCode, errorString) == [code |-> errorCode, text |-> errorString]

\* if self.outer.error is None: self.outer.error = outer_msg
SetError(slot, msg) == IF slot = NoMsg THEN msg ELSE slot

\* _IBAccountClient._account_matches
AccountMatches(account, filters) ==
    \E i \in 1..Len(filters) :
        /\ filters[i] # <<>>
        /\ \/ account = filters[i]
           \/ EndsWith(account, filters[i])

\* `account_filter and not _account_matches(account, account_filter)`:
\* the callback drops the record.
Dropped(account) ==
    /\ account_filter # NoFilter
    /\ ~AccountMatches(account, account_filter)

\* tag.lower() on the tags of the model
LowerTag ==
    [ TotalCashValue |-> "totalcashvalue",
      NetLiquidation |-> "netliquidation",
      BuyingPower    |-> "buyingpower" ]

\* currency.upper() on the currencies of the model
UpperCurrency == [ usd |-> "USD" ]

\* float(value), with `except ValueError: amount = 0.0`
AmountOf(value) ==
    CASE value = "5.0" -> 5
      [] value = "0" -> 0
      [] OTHER -> 0

\* self._client_impl.disconnect(): the socket is closed
DisconnectSkipped(conn) == conn

Disconnect(conn) == FALSE

\* ---- inputs ----
MaxCallbacks == 4     \* callbacks the gateway delivers during one run
Timeout == 2          \* fetch's timeout, in sleep intervals

ErrorCodes == {2104, 502}
ErrorStrings == { <<"m", "s", "g">>, <<"2", "1", "0", "4">>, <<"5", "0", "2">> }
Accounts == { <<"U", "1">>, <<"U", "2">>, <<"U", "2", "1">> }
AccountFilters == { NoFilter, << <<"1">> >>, << <<>>, <<"U", "2">> >> }
SummaryTags == {"TotalCashValue", "NetLiquidation", "BuyingPower"}
SummaryValues == {"5.0", "abc"}
Quantities == {0, 3}
TheContract == [symbol |-> "AAPL", secType |-> "STK", currency |-> "USD"]

\* _IBAccountClient.__init__
GwInit ==
    /\ account_filter \in AccountFilters
    /\ gwPc = "idle"
    /\ now = 0
    /\ connected = FALSE
    /\ thread = "notstarted"
    /\ requested = <<>>
    /\ summary_done = FALSE
    /\ positions_done = FALSE
    /\ gwBalances = <<>>
    /\ net_liquidations = <<>>
    /\ gwPositions = <<>>
    /\ gwError = NoMsg
    /\ gwDelivered = 0
    /\ gwSteps = <<>>
    /\ gwExit = NoExit
    /\ gwRaised = NoMsg
    /\ firedNonBenign = <<>>
    /\ firedBenign = {}
    /\ cbRaised = {}

InFetch == gwPc \notin {"idle", "returned", "raised"}

\* ---- the thread that calls fetch() ----
\* connect(); thread.start(); start = time.time()
GwFetchCall ==
    /\ gwPc = "idle"
    /\ gwPc' = "while"
    /\ connected' = TRUE
    /\ thread' = "running"
    /\ now' = 0
    /\ UNCHANGED <<account_filter, requested, summary_done, positions_done, gwBalances,
                   net_liquidations, gwPositions, gwError, gwDelivered, gwSteps,
                   gwExit, gwRaised, firedNonBenign, firedBenign, cbRaised>>

\* while time.time() - start < timeout:
GwWhile ==
    /\ gwPc = "while"
    /\ IF now < Timeout
       THEN /\ gwPc' = "if"
            /\ UNCHANGED gwExit
       ELSE /\ gwPc' = "disconnect"
            /\ gwExit' = [how |-> "timeout", summary |-> summary_done,
                          positions |-> positions_done]
    /\ UNCHANGED <<account_filter, now, connected, thread, requested, summary_done,
                   positions_done, gwBalances, net_liquidations, gwPositions, gwError,
                   gwDelivered, gwSteps, gwRaised, firedNonBenign, firedBenign, cbRaised>>

\* if self.summary_done.is_set() and self.positions_done.is_set(): break
GwIf ==
    /\ gwPc = "if"
    /\ IF summary_done /\ positions_done
       THEN /\ gwPc' = "disconnect"
            /\ gwExit' = [how |-> "break", summary |-> TRUE, positions |-> TRUE]
       ELSE /\ gwPc' = "sleep"
            /\ UNCHANGED gwExit
    /\ UNCHANGED <<account_filter, now, connected, thread, requested, summary_done,
                   positions_done, gwBalances, net_liquidations, gwPositions, gwError,
                   gwDelivered, gwSteps, gwRaised, firedNonBenign, firedBenign, cbRaised>>

\* time.sleep(0.1): at least one interval passes
GwSleep ==
    /\ gwPc = "sleep"
    /\ \E d \in 1..(Timeout - now) : now' = now + d
    /\ gwPc' = "while"
    /\ UNCHANGED <<account_filter, connected, thread, requested, summary_done,
                   positions_done, gwBalances, net_liquidations, gwPositions, gwError,
                   gwDelivered, gwSteps, gwExit, gwRaised, firedNonBenign, firedBenign,
                   cbRaised>>

\* self._client_impl.disconnect()
GwDisconnect ==
    /\ gwPc = "disconnect"
    /\ gwPc' = "join"
    /\ connected' = Disconnect(connected)
    /\ gwSteps' = Append(gwSteps, "disconnect")
    /\ UNCHANGED <<account_filter, now, thread, requested, summary_done, positions_done,
                   gwBalances, net_liquidations, gwPositions, gwError, gwDelivered,
                   gwExit, gwRaised, firedNonBenign, firedBenign, cbRaised>>

\* thread.join() without a timeout: returns once the thread has exited
JoinReturnsWhenExited(th) == th = "exited"

\* thread.join(timeout=1.0) returns whether or not the thread has exited
JoinReturns(th) == th \in {"running", "exited"}

\* thread.join(timeout=1.0): returns when the thread has exited, or after the
\* join timeout with the thread still running
GwJoin ==
    /\ gwPc = "join"
    /\ JoinReturns(thread)
    /\ gwPc' = "finish"
    /\ gwSteps' = Append(gwSteps, "join")
    /\ UNCHANGED <<account_filter, now, connected, thread, requested, summary_done,
                   positions_done, gwBalances, net_liquidations, gwPositions, gwError,
                   gwDelivered, gwExit, gwRaised, firedNonBenign, firedBenign, cbRaised>>

\* if self.error: raise BrokerError(self.error)
\* return self.balances, self.positions
GwFinish ==
    /\ gwPc = "finish"
    /\ IF gwError # NoMsg
       THEN /\ gwPc' = "raised"
            /\ gwRaised' = gwError
       ELSE /\ gwPc' = "returned"
            /\ UNCHANGED gwRaised
    /\ UNCHANGED <<account_filter, now, connected, thread, requested, summary_done,
                   positions_done, gwBalances, net_liquidations, gwPositions, gwError,
                   gwDelivered, gwSteps, gwExit, firedNonBenign, firedBenign, cbRaised>>

\* ---- the background thread: EClient.run delivering callbacks ----
CanDeliver == thread = "running" /\ gwDelivered < MaxCallbacks

\* _Client.error.  An exception raised by the callback leaves run(), whose
\* caller is the thread: the library either ends the thread there (closing
\* the socket on its way out) or carries on.
ErrorCallback(errorCode, errorString) ==
    /\ CanDeliver
    /\ gwDelivered' = gwDelivered + 1
    /\ firedNonBenign' =
         IF errorCode \notin benign /\ InFetch
         THEN Append(firedNonBenign, OuterMsg(errorCode, errorString))
         ELSE firedNonBenign
    /\ firedBenign' = IF errorCode \in benign THEN firedBenign \cup {errorCode}
                      ELSE firedBenign
    /\ LET record == ShouldRecord(errorCode, errorString) IN
         IF record = "ValueError"
         THEN /\ cbRaised' = cbRaised \cup {errorCode}
              /\ \/ thread' = "exited" /\ connected' = FALSE
                 \/ UNCHANGED <<thread, connected>>
              /\ UNCHANGED gwError
         ELSE /\ gwError' = IF record = "record"
                            THEN SetError(gwError, OuterMsg(errorCode, errorString))
                            ELSE gwError
              /\ UNCHANGED <<cbRaised, thread, connected>>
    /\ UNCHANGED <<account_filter, gwPc, now, requested, summary_done, positions_done,
                   gwBalances, net_liquidations, gwPositions, gwSteps, gwExit, gwRaised>>

\* a nextValidId that leaves the positions request for later
IssuedOnAckSummaryOnly == <<"reqAccountSummary">>

\* lines 56-57: both requests, one after the other, in the one callback
IssuedOnAck == <<"reqAccountSummary", "reqPositions">>

\* _Client.nextValidId: the handshake acknowledgement
NextValidId ==
    /\ CanDeliver
    /\ requested = <<>>
    /\ gwDelivered' = gwDelivered + 1
    /\ requested' = IssuedOnAck
    /\ UNCHANGED <<account_filter, gwPc, now, connected, thread, summary_done,
                   positions_done, gwBalances, net_liquidations, gwPositions, gwError,
                   gwSteps, gwExit, gwRaised, firedNonBenign, firedBenign, cbRaised>>

SummaryRequested == \E i \in 1..Len(requested) : requested[i] = "reqAccountSummary"
PositionsRequested == \E i \in 1..Len(requested) : requested[i] = "reqPositions"

\* _Client.accountSummary
AccountSummary(account, tag, value, currency) ==
    /\ CanDeliver
    /\ SummaryRequested
    /\ gwDelivered' = gwDelivered + 1
    /\ LET tag_lower == LowerTag[tag]
           entry == [account |-> account, currency |-> UpperCurrency[currency],
                     amount |-> AmountOf(value)]
       IN IF tag_lower \in {"totalcashvalue", "cashbalance"}
          THEN /\ gwBalances' = IF Dropped(account) THEN gwBalances
                                ELSE Append(gwBalances, entry)
               /\ UNCHANGED net_liquidations
          ELSE IF tag_lower = "netliquidation"
          THEN /\ net_liquidations' = Append(net_liquidations, entry)
               /\ UNCHANGED gwBalances
          ELSE UNCHANGED <<gwBalances, net_liquidations>>
    /\ UNCHANGED <<account_filter, gwPc, now, connected, thread, requested, summary_done,
                   positions_done, gwPositions, gwError, gwSteps, gwExit, gwRaised,
                   firedNonBenign, firedBenign, cbRaised>>

\* _Client.accountSummaryEnd
AccountSummaryEnd ==
    /\ CanDeliver
    /\ SummaryRequested
    /\ gwDelivered' = gwDelivered + 1
    /\ summary_done' = TRUE
    /\ UNCHANGED <<account_filter, gwPc, now, connected, thread, requested,
                   positions_done, gwBalances, net_liquidations, gwPositions, gwError,
                   gwSteps, gwExit, gwRaised, firedNonBenign, firedBenign, cbRaised>>

\* _Client.position
PositionCallback(account, contract, pos, avgCost) ==
    /\ CanDeliver
    /\ PositionsRequested
    /\ gwDelivered' = gwDelivered + 1
    /\ gwPositions' =
         IF Dropped(account) THEN gwPositions
         ELSE Append(gwPositions,
                     [account |-> account, symbol |-> contract.symbol,
                      sec_type |-> contract.secType, currency |-> contract.currency,
                      qty |-> pos, avg_cost |-> avgCost])
    /\ UNCHANGED <<account_filter, gwPc, now, connected, thread, requested, summary_done,
                   positions_done, gwBalances, net_liquidations, gwError, gwSteps,
                   gwExit, gwRaised, firedNonBenign, firedBenign, cbRaised>>

\* _Client.positionEnd
PositionEnd ==
    /\ CanDeliver
    /\ PositionsRequested
    /\ gwDelivered' = gwDelivered + 1
    /\ positions_done' = TRUE
    /\ UNCHANGED <<account_filter, gwPc, now, connected, thread, requested, summary_done,
                   gwBalances, net_liquidations, gwPositions, gwError, gwSteps, gwExit,
                   gwRaised, firedNonBenign, firedBenign, cbRaised>>

\* run() ends once the socket is closed and its queue is drained
ThreadExit ==
    /\ thread = "running"
    /\ ~connected
    /\ thread' = "exited"
    /\ UNCHANGED <<account_filter, gwPc, now, connected, requested, summary_done,
                   positions_done, gwBalances, net_liquidations, gwPositions, gwError,
                   gwDelivered, gwSteps, gwExit, gwRaised, firedNonBenign, firedBenign,
                   cbRaised>>

GwCallerStep ==
    \/ GwFetchCall
    \/ GwWhile
    \/ GwIf
    \/ GwSleep
    \/ GwDisconnect
    \/ GwJoin
    \/ GwFinish

GwNext ==
    \/ GwCallerStep /\ UNCHANGED <<aggVars, prVars, adVars, bdVars>>
    \/ (\E c \in ErrorCodes, m \in ErrorStrings : ErrorCallback(c, m)) /\ UNCHANGED <<aggVars, prVars, adVars, bdVars>>
    \/ NextValidId /\ UNCHANGED <<aggVars, prVars, adVars, bdVars>>
    \/ (\E a \in Accounts, t \in SummaryTags, v \in SummaryValues :
            AccountSummary(a, t, v, "usd")) /\ UNCHANGED <<aggVars, prVars, adVars, bdVars>>
    \/ AccountSummaryEnd /\ UNCHANGED <<aggVars, prVars, adVars, bdVars>>
    \/ (\E a \in Accounts, q \in Quantities :
            PositionCallback(a, TheContract, q, 150)) /\ UNCHANGED <<aggVars, prVars, adVars, bdVars>>
    \/ PositionEnd /\ UNCHANGED <<aggVars, prVars, adVars, bdVars>>
    \/ ThreadExit /\ UNCHANGED <<aggVars, prVars, adVars, bdVars>>

GwSpecInit == GwInit /\ AggIdle /\ PrIdle /\ AdIdle /\ BdIdle

SpecGw == GwSpecInit /\ [][GwNext]_vars

\* The calling thread keeps running: connect() returns, every sleep ends and
\* the bounded join returns.  Nothing is assumed of the gateway or of the
\* background thread.
SpecGwFair ==
    /\ SpecGw
    /\ WF_vars(GwCallerStep /\ UNCHANGED <<aggVars, prVars, adVars, bdVars>>)

(***************************************************************************)
(* Claims about the gateway socket client                                  *)
(***************************************************************************)
FetchEnded == gwPc \in {"returned", "raised"}

\* C4: when both completion signals were set when fetch() checked them before
\* the timeout (the loop ended by its break) and no error callback with a
\* non-benign code fired, fetch() left the loop before the timeout and
\* returns the collected records without raising.
Claim_C4 ==
    (FetchEnded /\ gwExit.how = "break" /\ firedNonBenign = <<>>)
        => /\ gwPc = "returned"
           /\ gwRaised = NoMsg
           /\ now < Timeout

\* C5: when the timeout elapsed with at most one completion signal set and no
\* error callback with a non-benign code fired, fetch() raises nothing and
\* returns what was collected.
Claim_C5 ==
    (/\ FetchEnded
     /\ gwExit.how = "timeout"
     /\ ~(gwExit.summary /\ gwExit.positions)
     /\ firedNonBenign = <<>>)
        => /\ gwPc = "returned"
           /\ gwRaised = NoMsg

\* C6: when an error callback with a non-benign code fired during the fetch,
\* fetch() raises a broker error carrying the message of the first such
\* callback, whatever the signals and the collected records are.
Claim_C6 ==
    (FetchEnded /\ firedNonBenign # <<>>)
        => /\ gwPc = "raised"
           /\ gwRaised = firedNonBenign[1]

\* C7: an error callback whose code is one of 2104, 2106, 2158 is ignored
\* whatever its text: it completes normally, never sets the error slot and
\* never makes fetch() fail.
Claim_C7 ==
    /\ cbRaised \cap benign = {}
    /\ gwError # NoMsg => gwError.code \notin benign
    /\ gwPc = "raised" => gwRaised.code \notin benign

\* C8: on every path out of fetch() (break, timeout, error recorded) the
\* client has first disconnected and then joined the background thread; the
\* socket is closed from the disconnect on, and nothing of the cleanup runs
\* before the wait loop ends.
Thm_C8 ==
    /\ gwPc \in {"while", "if", "sleep", "disconnect"} => gwSteps = <<>>
    /\ gwPc = "join" => (gwSteps = <<"disconnect">> /\ ~connected)
    /\ gwPc \in {"finish", "returned", "raised"}
         => (gwSteps = <<"disconnect", "join">> /\ ~connected)

\* C8 witness: fetch() raised the recorded error after its wait timed out,
\* with the socket closed and both cleanup steps done, the background thread
\* still running.
Wit_C8 ==
    /\ gwPc = "raised"
    /\ gwExit.how = "timeout"
    /\ gwSteps = <<"disconnect", "join">>
    /\ ~connected
    /\ thread = "running"

\* The other two paths out of fetch(), reached as well.
Wit_C8_break == gwPc = "returned" /\ gwExit.how = "break" /\ ~connected
Wit_C8_timeout == gwPc = "returned" /\ gwExit.how = "timeout" /\ ~connected

(***************************************************************************)
(* Price resolution engine: PriceService (services/price_service.py) and   *)
(* is_stable (utils/currency.py).                                          *)
(*                                                                         *)
(* Symbols are sequences of one-character strings.  A price is a rational  *)
(* [num, den], so that the reciprocal the code takes is exact.  The        *)
(* endpoints are the environment: every request gets one of a few          *)
(* responses, chosen anew at each request.                                 *)
(***************************************************************************)
\* str.upper(), character by character
UpperTable ==
    [ a |-> "A", b |-> "B", c |-> "C", d |-> "D", e |-> "E", f |-> "F", g |-> "G",
      h |-> "H", i |-> "I", j |-> "J", k |-> "K", l |-> "L", m |-> "M", n |-> "N",
      o |-> "O", p |-> "P", q |-> "Q", r |-> "R", s |-> "S", t |-> "T", u |-> "U",
      v |-> "V", w |-> "W", x |-> "X", y |-> "Y", z |-> "Z" ]

UpperChar(c) == IF c \in DOMAIN UpperTable THEN UpperTable[c] ELSE c

Upper(str) == [i \in 1..Len(str) |-> UpperChar(str[i])]

USD == <<"U", "S", "D">>
USDT == <<"U", "S", "D", "T">>
USDC == <<"U", "S", "D", "C">>
USDD == <<"U", "S", "D", "D">>
BUSD == <<"B", "U", "S", "D">>
TUSD == <<"T", "U", "S", "D">>
DAI == <<"D", "A", "I">>
FDUSD == <<"F", "D", "U", "S", "D">>
USDP == <<"U", "S", "D", "P">>
RUB == <<"R", "U", "B">>

STABLE_COINS == {USD, USDT, USDC, BUSD, DAI, TUSD, FDUSD, USDD, USDP}

\* is_stable without the suffix heuristic
IsStableSetOnly(symbol) ==
    /\ symbol # <<>>
    /\ Upper(symbol) \in STABLE_COINS

\* utils.currency.is_stable
is_stable(symbol) ==
    /\ symbol # <<>>
    /\ LET sym == Upper(symbol) IN
         \/ sym \in STABLE_COINS
         \/ \E suffix \in {USD, USDT, USDC, USDD, BUSD, TUSD} : EndsWith(sym, suffix)

\* prices
One == [num |-> 1, den |-> 1]
NonePrice == [num |-> 0, den |-> 0]
Recip(p) == [num |-> p.den, den |-> p.num]
Truthy(p) == p # NonePrice /\ p.num # 0

\* float(raw) on the raw prices of the model; None and text do not convert
FloatOf(raw) ==
    CASE raw = "2" -> [raises |-> "none", value |-> [num |-> 2, den |-> 1]]
      [] raw = "0" -> [raises |-> "none", value |-> [num |-> 0, den |-> 1]]
      [] raw = "abc" -> [raises |-> "ValueError", value |-> NonePrice]
      [] OTHER -> [raises |-> "TypeError", value |-> NonePrice]

\* dict operations
DictSet(d, k, v) == [x \in DOMAIN d \cup {k} |-> IF x = k THEN v ELSE d[x]]
DictUpdate(d, other) ==
    [x \in DOMAIN d \cup DOMAIN other |-> IF x \in DOMAIN other THEN other[x] ELSE d[x]]

\* candidates.discard(sym), unresolved.discard("RUB"), unresolved -= set(prices)
RemainingKeepsAll(working, resolved) == working

Remaining(working, resolved) == working \ resolved

\* `if unresolved:` before the call of stage 4, dropped
Stage4Always(unres) == TRUE

\* `if unresolved:` (line 56): is there anything left for stage 4
StillUnresolved(unres) == unres # {}

\* pairs = ["USDT", "USDC", "USD", "BUSD"] and the inverse quotes of stage 3;
\* pairs = ["USDT", "USDC", "USD"] of stage 4
\* the direct quotes in another order
BinancePairsReordered == <<USDT, USD, USDC, BUSD>>

BinancePairs == <<USDT, USDC, USD, BUSD>>
BinanceInversePairs == <<USDT, BUSD, USDC>>
BybitPairs == <<USDT, USDC, USD>>

\* ---- inputs ----
MaxSymbols == 4

SymbolUniverse ==
    { <<>>,
      <<"u", "s", "d", "t">>,
      DAI,
      <<"x", "U", "s", "d">>,
      <<"b", "n", "b">>,
      RUB,
      <<"l", "u", "n", "a">> }

\* what the fiat endpoint may answer
\* (raises: the request failed in transport; text: the rate in the body is a
\* string, not a number)
FiatResponses ==
    { [raises |-> TRUE,  status |-> 0,   has_rate |-> FALSE, text |-> FALSE, rate |-> 0],
      [raises |-> FALSE, status |-> 500, has_rate |-> FALSE, text |-> FALSE, rate |-> 0],
      [raises |-> FALSE, status |-> 200, has_rate |-> FALSE, text |-> FALSE, rate |-> 0],
      [raises |-> FALSE, status |-> 200, has_rate |-> TRUE,  text |-> TRUE,  rate |-> 0],
      [raises |-> FALSE, status |-> 200, has_rate |-> TRUE,  text |-> FALSE, rate |-> 0],
      [raises |-> FALSE, status |-> 200, has_rate |-> TRUE,  text |-> FALSE, rate |-> -5],
      [raises |-> FALSE, status |-> 200, has_rate |-> TRUE,  text |-> FALSE, rate |-> 80] }

\* what a ticker endpoint may answer: a status (0: the request failed in
\* transport) and the raw price in the body ("None": the body has no price)
BinanceResponses ==
    { [status |-> 0, price |-> "None"], [status |-> 500, price |-> "None"] }
    \cup [status : {200}, price : {"2", "0", "abc", "None"}]

\* ... and, for exchange B, the list of tickers in the body
BybitResponses ==
    { [status |-> 0, list |-> <<>>], [status |-> 500, list |-> <<>>],
      [status |-> 200, list |-> <<>>] }
    \cup [status : {200}, list : { <<"2">>, <<"abc">>, <<"None">> }]

\* an outcome of a try body: the exception it raised ("none": it ran to its
\* end) and the price it reached (NonePrice: none)
Raised(exc) == [exc |-> exc, price |-> NonePrice]
Priced(price) == [exc |-> "none", price |-> price]

\* `except Exception` of the three lookups, narrowed to transport errors
PriceExceptHttpOnly(exc) == IsInstance(exc, "HTTPError")

\* `except Exception` (lines 91, 120, 137, 169): does the clause catch exc
PriceExcept(exc) == IsInstance(exc, "Exception")

\* what a try statement leaves: the body's outcome, or no price when the
\* clause caught the body's exception
TryExcept(body) ==
    IF body.exc # "none" /\ PriceExcept(body.exc) THEN Priced(NonePrice) ELSE body

\* client.get(...) then the status check
GetRaises(status) ==
    IF status = 0 THEN "ConnectError"
    ELSE IF status # 200 THEN "HTTPStatusError"
    ELSE "none"

\* `rate_usd_to_rub and rate_usd_to_rub > 0` without the sign test
PositiveRateUnchecked(rate) == rate # 0

\* line 87: `rate_usd_to_rub and rate_usd_to_rub > 0`
PositiveRate(rate) == rate # 0 /\ rate > 0

\* PriceService._fetch_exchangerate_api_price: the price, or NonePrice; the
\* try body is lines 75-90 (a non-200 status returns None without raising)
FetchExchangerateApiPrice(symbol, resp) ==
    IF symbol # RUB THEN Priced(NonePrice)
    ELSE TryExcept(
           IF resp.raises THEN Raised("ConnectError")
           ELSE IF resp.status # 200 THEN Priced(NonePrice)
           ELSE IF ~resp.has_rate THEN Priced(NonePrice)
           ELSE IF resp.text THEN Raised("TypeError")
           ELSE IF PositiveRate(resp.rate)
                THEN Priced([num |-> 1, den |-> resp.rate])
           ELSE Priced(NonePrice))

\* One pass of the try statement of _fetch_binance_prices: the price, or
\* NonePrice when the except clause sent the loop to the next quote.
BinanceTry(resp, inverse) ==
    TryExcept(
      IF GetRaises(resp.status) # "none" THEN Raised(GetRaises(resp.status))
      ELSE IF FloatOf(resp.price).raises # "none" THEN Raised(FloatOf(resp.price).raises)
      ELSE IF ~inverse THEN Priced(FloatOf(resp.price).value)
      ELSE IF FloatOf(resp.price).value.num = 0 THEN Raised("ZeroDivisionError")
      ELSE Priced(Recip(FloatOf(resp.price).value)))

\* One pass of the try statement of _fetch_bybit_prices.
BybitTry(resp) ==
    TryExcept(
      IF GetRaises(resp.status) # "none" THEN Raised(GetRaises(resp.status))
      ELSE IF resp.list = <<>> THEN Priced(NonePrice)
      ELSE IF FloatOf(resp.list[1]).raises # "none"
           THEN Raised(FloatOf(resp.list[1]).raises)
      ELSE Priced(FloatOf(resp.list[1]).value))

\* the number in the price field of the ticker answer a price was made of
ReturnedPrice(raw, price) ==
    IF price # NonePrice THEN FloatOf(raw).value ELSE NonePrice

\* the rate of the fiat endpoint's answer a price was made of
ReturnedRate(resp, price) ==
    IF price # NonePrice THEN [num |-> resp.rate, den |-> 1] ELSE NonePrice

\* inverse pairs tried for every symbol the direct pairs failed for
TriesInverseAlways(symbol) == TRUE

\* line 124, `symbol == "RUB"`: the inverse pairs are for RUB only
TriesInverse(symbol) == symbol = RUB

PrInit ==
    /\ symbols \in {S \in SUBSET SymbolUniverse : Cardinality(S) <= MaxSymbols}
    /\ prPc = "idle"
    /\ candidates = {}
    /\ price_map = EmptyDict
    /\ unresolved = {}
    /\ results = EmptyDict
    /\ todo = {}
    /\ cur = <<>>
    /\ qi = 0
    /\ phase = "direct"
    /\ prRequests = <<>>
    /\ prHanded = {}
    /\ prWrites = {}
    /\ prRaised = "none"

\* fetch_usd_prices, lines 28-31
PrCall ==
    /\ prPc = "idle"
    /\ candidates' = {Upper(sym) : sym \in {x \in symbols : x # <<>>}}
    /\ prPc' = IF candidates' = {} THEN "done" ELSE "stable"
    /\ UNCHANGED <<symbols, price_map, unresolved, results, todo, cur, qi, phase,
                   prRequests, prHanded, prWrites, prRaised>>

\* lines 33-42: the stablecoin shortcut
PrStable ==
    /\ prPc = "stable"
    /\ LET stable == {sym \in candidates : is_stable(sym)} IN
         /\ price_map' = [sym \in stable |-> One]
         /\ candidates' = Remaining(candidates, stable)
         /\ prWrites' = prWrites \cup {[stage |-> 1, symbol |-> sym] : sym \in stable}
         /\ prHanded' = prHanded \cup {[stage |-> 1, set |-> candidates]}
    /\ IF candidates' = {}
       THEN prPc' = "done" /\ UNCHANGED unresolved
       ELSE prPc' = "fiat" /\ unresolved' = candidates'
    /\ UNCHANGED <<symbols, results, todo, cur, qi, phase, prRequests, prRaised>>

\* lines 46-52: the fiat lookup, then the call of _fetch_binance_prices
PrFiat(resp) ==
    /\ prPc = "fiat"
    /\ LET fiat == IF RUB \in unresolved
                   THEN FetchExchangerateApiPrice(RUB, resp)
                   ELSE Priced(NonePrice)
       IN
         /\ prRequests' = IF RUB \in unresolved
                           THEN Append(prRequests,
                                       [stage |-> 2, symbol |-> RUB, pair |-> USD,
                                        price |-> fiat.price,
                                        returned |-> ReturnedRate(resp, fiat.price)])
                           ELSE prRequests
         /\ IF Truthy(fiat.price)
            THEN /\ price_map' = DictSet(price_map, RUB, fiat.price)
                 /\ unresolved' = Remaining(unresolved, {RUB})
                 /\ prWrites' = prWrites \cup {[stage |-> 2, symbol |-> RUB]}
            ELSE UNCHANGED <<price_map, unresolved, prWrites>>
         /\ IF fiat.exc # "none"
            THEN /\ prPc' = "raised"
                 /\ prRaised' = fiat.exc
                 /\ prHanded' = prHanded \cup {[stage |-> 2, set |-> unresolved]}
                 /\ UNCHANGED <<results, todo>>
            ELSE /\ prPc' = "binance"
                 /\ prHanded' = prHanded
                      \cup (IF RUB \in unresolved
                            THEN {[stage |-> 2, set |-> unresolved]} ELSE {})
                      \cup {[stage |-> 3, set |-> unresolved']}
                 /\ results' = EmptyDict
                 /\ todo' = unresolved'
                 /\ UNCHANGED prRaised
    /\ UNCHANGED <<symbols, candidates, cur, qi, phase>>

\* `for symbol in symbols` of a ticker stage: the set's next symbol
PrPick ==
    /\ prPc \in {"binance", "bybit"}
    /\ cur = <<>>
    /\ \E symbol \in todo : cur' = symbol
    /\ qi' = 1
    /\ phase' = "direct"
    /\ UNCHANGED <<symbols, prPc, candidates, price_map, unresolved, results, todo,
                   prRequests, prHanded, prWrites, prRaised>>

\* the symbol's loop has nothing left to try, or has its price
SymbolDone(price) ==
    /\ results' = IF price = NonePrice THEN results ELSE DictSet(results, cur, price)
    /\ todo' = todo \ {cur}
    /\ cur' = <<>>
    /\ UNCHANGED <<qi, phase>>

\* _fetch_binance_prices: one request of the inner loops (lines 110-138)
PrBinanceRequest(resp) ==
    /\ prPc = "binance"
    /\ cur # <<>>
    /\ LET quotes == IF phase = "direct" THEN BinancePairs ELSE BinanceInversePairs
           pair == IF phase = "direct" THEN cur \o quotes[qi] ELSE quotes[qi] \o cur
           try == BinanceTry(resp, phase = "inverse")
       IN /\ prRequests' = Append(prRequests,
                                  [stage |-> 3, symbol |-> cur, pair |-> pair,
                                   price |-> try.price,
                                   returned |-> ReturnedPrice(resp.price, try.price)])
          /\ IF try.exc # "none"
             THEN /\ prPc' = "raised"
                  /\ prRaised' = try.exc
                  /\ UNCHANGED <<results, todo, cur, qi, phase>>
             ELSE /\ UNCHANGED <<prPc, prRaised>>
                  /\ IF try.price # NonePrice
                     THEN SymbolDone(try.price)
                     ELSE IF qi < Len(quotes)
                     THEN qi' = qi + 1 /\ UNCHANGED <<results, todo, cur, phase>>
                     ELSE IF phase = "direct" /\ TriesInverse(cur)
                     THEN qi' = 1 /\ phase' = "inverse" /\ UNCHANGED <<results, todo, cur>>
                     ELSE SymbolDone(NonePrice)
    /\ UNCHANGED <<symbols, candidates, price_map, unresolved, prHanded, prWrites>>

\* lines 53-59: stage 3 returned; update, subtract, and call stage 4 if
\* something is left
PrBinanceEnd ==
    /\ prPc = "binance"
    /\ cur = <<>>
    /\ todo = {}
    /\ price_map' = DictUpdate(price_map, results)
    /\ unresolved' = Remaining(unresolved, DOMAIN results)
    /\ prWrites' = prWrites \cup {[stage |-> 3, symbol |-> sym] : sym \in DOMAIN results}
    /\ results' = EmptyDict
    /\ IF StillUnresolved(unresolved')
       THEN /\ prPc' = "bybit"
            /\ todo' = unresolved'
            /\ prHanded' = prHanded \cup {[stage |-> 4, set |-> unresolved']}
       ELSE /\ prPc' = "done"
            /\ UNCHANGED <<todo, prHanded>>
    /\ UNCHANGED <<symbols, candidates, cur, qi, phase, prRequests, prRaised>>

\* _fetch_bybit_prices: one request of the inner loop (lines 154-170)
PrBybitRequest(resp) ==
    /\ prPc = "bybit"
    /\ cur # <<>>
    /\ LET try == BybitTry(resp) IN
          /\ prRequests' = Append(prRequests,
                                  [stage |-> 4, symbol |-> cur,
                                   pair |-> cur \o BybitPairs[qi], price |-> try.price,
                                   returned |-> try.price])
          /\ IF try.exc # "none"
             THEN /\ prPc' = "raised"
                  /\ prRaised' = try.exc
                  /\ UNCHANGED <<results, todo, cur, qi, phase>>
             ELSE /\ UNCHANGED <<prPc, prRaised>>
                  /\ IF try.price # NonePrice
                     THEN SymbolDone(try.price)
                     ELSE IF qi < Len(BybitPairs)
                     THEN qi' = qi + 1 /\ UNCHANGED <<results, todo, cur, phase>>
                     ELSE SymbolDone(NonePrice)
    /\ UNCHANGED <<symbols, candidates, price_map, unresolved, prHanded, prWrites>>

\* lines 58-64: stage 4 returned; update, subtract, return price_map
PrBybitEnd ==
    /\ prPc = "bybit"
    /\ cur = <<>>
    /\ todo = {}
    /\ price_map' = DictUpdate(price_map, results)
    /\ unresolved' = Remaining(unresolved, DOMAIN results)
    /\ prWrites' = prWrites \cup {[stage |-> 4, symbol |-> sym] : sym \in DOMAIN results}
    /\ results' = EmptyDict
    /\ prPc' = "done"
    /\ UNCHANGED <<symbols, candidates, todo, cur, qi, phase, prRequests, prHanded,
                   prRaised>>

PrNext ==
    \/ PrCall /\ UNCHANGED <<aggVars, gwVars, adVars, bdVars>>
    \/ PrStable /\ UNCHANGED <<aggVars, gwVars, adVars, bdVars>>
    \/ (\E resp \in FiatResponses : PrFiat(resp)) /\ UNCHANGED <<aggVars, gwVars, adVars, bdVars>>
    \/ PrPick /\ UNCHANGED <<aggVars, gwVars, adVars, bdVars>>
    \/ (\E resp \in BinanceResponses : PrBinanceRequest(resp)) /\ UNCHANGED <<aggVars, gwVars, adVars, bdVars>>
    \/ PrBinanceEnd /\ UNCHANGED <<aggVars, gwVars, adVars, bdVars>>
    \/ (\E resp \in BybitResponses : PrBybitRequest(resp)) /\ UNCHANGED <<aggVars, gwVars, adVars, bdVars>>
    \/ PrBybitEnd /\ UNCHANGED <<aggVars, gwVars, adVars, bdVars>>

PrSpecInit == PrInit /\ AggIdle /\ GwIdle /\ AdIdle /\ BdIdle

SpecPrice == PrSpecInit /\ [][PrNext]_vars

(***************************************************************************)
(* Claims about the price resolution engine                                *)
(***************************************************************************)
\* The upper-case name of each symbol of the model.
UpperName == [sym \in SymbolUniverse |-> Upper(sym)]

\* The uppercased non-empty input symbols.
AllCandidates == {UpperName[sym] : sym \in {x \in symbols : x # <<>>}}

\* Stable, as the claim words it: case-insensitively in the stablecoin set,
\* or ending in one of the six suffixes.
StableSuffixes == {USD, USDT, USDC, USDD, BUSD, TUSD}

ClaimedStable(sym) ==
    \/ Upper(sym) \in STABLE_COINS
    \/ \E suffix \in StableSuffixes : EndsWith(Upper(sym), suffix)

\* The symbols of the model, as given and uppercased, that are stable.
StableNames ==
    {sym \in SymbolUniverse \cup {UpperName[x] : x \in SymbolUniverse} : ClaimedStable(sym)}

\* C9: a stable input symbol is priced exactly 1.0 under its uppercased name
\* and no request (fiat endpoint, either ticker) is ever made for it; when
\* every input symbol is stable the call makes no request at all.
Thm_C9 ==
    /\ \A i \in 1..Len(prRequests) : prRequests[i].symbol \notin StableNames
    /\ prPc = "done"
         => \A sym \in symbols \cap StableNames :
                /\ UpperName[sym] \in DOMAIN price_map
                /\ price_map[UpperName[sym]] = One
    /\ symbols \subseteq StableNames \cup {<<>>} => prRequests = <<>>

\* C9 witness: the call returned with a stablecoin given in lower case and a
\* symbol that is stable only by its suffix both priced 1.0, after requests
\* were made for a third symbol only.
Wit_C9 ==
    /\ prPc = "done"
    /\ symbols = { <<"u", "s", "d", "t">>, <<"x", "U", "s", "d">>, <<"b", "n", "b">> }
    /\ price_map[USDT] = One
    /\ price_map[<<"X", "U", "S", "D">>] = One
    /\ prRequests # <<>>
    /\ \A i \in 1..Len(prRequests) : prRequests[i].symbol = <<"B", "N", "B">>

\* C9, second case reached: every input symbol stable, no request made.
Wit_C9_all_stable ==
    /\ prPc = "done"
    /\ symbols = { <<"u", "s", "d", "t">>, DAI, <<"x", "U", "s", "d">> }
    /\ DOMAIN price_map = {USDT, DAI, <<"X", "U", "S", "D">>}
    /\ prRequests = <<>>

\* The symbols the stages before stage k resolved.
ResolvedBefore(k) == {w.symbol : w \in {x \in prWrites : x.stage < k}}

\* C10: each stage is handed exactly the symbols no earlier stage resolved;
\* a request of a stage is only ever made for such a symbol; and no key of
\* the price map is written by two stages (the per-stage resolved sets are
\* pairwise disjoint, nothing is overwritten).
Thm_C10 ==
    /\ \A h \in prHanded : h.set = AllCandidates \ ResolvedBefore(h.stage)
    /\ \A q \in {[stage |-> prRequests[i].stage, symbol |-> prRequests[i].symbol] :
                    i \in 1..Len(prRequests)} :
         q.symbol \in AllCandidates \ ResolvedBefore(q.stage)
    /\ \A w1 \in prWrites, w2 \in prWrites : w1.symbol = w2.symbol => w1.stage = w2.stage
    /\ DOMAIN price_map = {w.symbol : w \in prWrites}

\* C10 witness: the call returned with each of the four stages having
\* resolved one symbol, and stage 4 queried for its symbol alone.
Wit_C10 ==
    /\ prPc = "done"
    /\ prWrites = { [stage |-> 1, symbol |-> USDT],
                    [stage |-> 2, symbol |-> RUB],
                    [stage |-> 3, symbol |-> <<"B", "N", "B">>],
                    [stage |-> 4, symbol |-> <<"L", "U", "N", "A">>] }
    /\ [stage |-> 4, set |-> { <<"L", "U", "N", "A">> }] \in prHanded
    /\ [stage |-> 3, set |-> { <<"B", "N", "B">>, <<"L", "U", "N", "A">> }] \in prHanded

\* Stage k was invoked; a request of stage k was made.
Invoked(k) == \E h \in prHanded : h.stage = k
Requested(k) == \E i \in 1..Len(prRequests) : prRequests[i].stage = k

\* C11: stage 4 is invoked only with a non-empty unresolved set; once the
\* call is past stage 3, stage 4 was invoked exactly when some symbol was
\* left unresolved by stages 1 to 3, and when none was left no request of
\* stage 4 is ever made.
Thm_C11 ==
    /\ \A h \in prHanded : h.stage = 4 => h.set # {}
    /\ prPc = "bybit" => unresolved # {}
    /\ Requested(4) => Invoked(4)
    /\ (prPc \in {"bybit", "done"} /\ Invoked(3))
         => (Invoked(4) <=> AllCandidates \ ResolvedBefore(4) # {})

\* C11 witness: the call returned after stage 3 resolved the two symbols it
\* was handed, and stage 4 was neither invoked nor made a request.
Wit_C11 ==
    /\ prPc = "done"
    /\ [stage |-> 3, set |-> { <<"B", "N", "B">>, <<"L", "U", "N", "A">> }] \in prHanded
    /\ {w.symbol : w \in {x \in prWrites : x.stage = 3}}
         = { <<"B", "N", "B">>, <<"L", "U", "N", "A">> }
    /\ ~Invoked(4)
    /\ ~Requested(4)

\* C11, the other case reached: stage 3 left one symbol, stage 4 was invoked
\* for it.
Wit_C11_invoked ==
    /\ prPc = "done"
    /\ [stage |-> 4, set |-> { <<"L", "U", "N", "A">> }] \in prHanded
    /\ Requested(4)

\* The number of requests stage k made for sym.
RequestsFor(k, sym) ==
    Cardinality({i \in 1..Len(prRequests) :
                    prRequests[i].stage = k /\ prRequests[i].symbol = sym})

\* C12: fetch_usd_prices never raises, whatever the endpoints answer; the
\* keys of its map are among the uppercased non-empty input symbols; a
\* symbol is a key exactly when a stage resolved it; and a symbol that is
\* absent from the returned map is one every stage tried and failed on
\* (each pair of both tickers was requested and gave no price).
Thm_C12 ==
    /\ prPc # "raised"
    /\ prRaised = "none"
    /\ DOMAIN price_map \subseteq AllCandidates
    /\ prPc = "done"
         => /\ DOMAIN price_map = {w.symbol : w \in prWrites}
            /\ \A sym \in AllCandidates \ DOMAIN price_map :
                 /\ sym \notin StableNames
                 /\ RequestsFor(3, sym) = Len(BinancePairs)
                       + (IF sym = RUB THEN Len(BinanceInversePairs) ELSE 0)
                 /\ RequestsFor(4, sym) = Len(BybitPairs)

\* C12 witness: the call returned a map without LUNA, which every pair of
\* both tickers failed to price, and with BNB, which stage 3 priced after a
\* failed first pair.
Wit_C12 ==
    /\ prPc = "done"
    /\ symbols = { <<"b", "n", "b">>, <<"l", "u", "n", "a">> }
    /\ DOMAIN price_map = { <<"B", "N", "B">> }
    /\ RequestsFor(3, <<"B", "N", "B">>) = 2
    /\ RequestsFor(3, <<"L", "U", "N", "A">>) = 4
    /\ RequestsFor(4, <<"L", "U", "N", "A">>) = 3

(***************************************************************************)
(* Venue adapters (adapters/bybit.py, binance.py, tinkoff.py,              *)
(* interactive_brokers.py).  One adapter method runs at a time; each       *)
(* request it makes is answered by the environment with one of a few       *)
(* responses, recorded in adCalls.  JSON values are raw strings ("None":   *)
(* the key is absent or null); amounts are integers.                       *)
(***************************************************************************)
\* float(raw) on the raw amounts of the model
Float(raw) ==
    CASE raw = "0" -> [raises |-> "none", value |-> 0]
      [] raw = "1" -> [raises |-> "none", value |-> 1]
      [] raw = "2" -> [raises |-> "none", value |-> 2]
      [] raw = "3" -> [raises |-> "none", value |-> 3]
      [] raw = "5" -> [raises |-> "none", value |-> 5]
      [] raw = "-2" -> [raises |-> "none", value |-> -2]
      [] raw = "None" -> [raises |-> "TypeError", value |-> 0]
      [] OTHER -> [raises |-> "ValueError", value |-> 0]

\* the truth value of a raw JSON value: None and "" are falsy, any other
\* string ("0" too) is truthy
RawTruthy(raw) == raw \notin {"None", ""}

\* `a or b or ... or 0` over raw values: the first truthy operand, else "0"
RECURSIVE OrChain(_)
OrChain(raws) ==
    IF raws = <<>> THEN "0"
    ELSE IF RawTruthy(Head(raws)) THEN Head(raws)
    ELSE OrChain(Tail(raws))

\* the status of a response: 0 when the request failed in transport
HttpStatuses == {0, 500, 200}

\* response.raise_for_status() after client.get / client.post
RequestRaises(resp) ==
    IF resp.status = 0 THEN "ConnectError"
    ELSE IF resp.status # 200 THEN "HTTPStatusError"
    ELSE "none"

\* the concatenation of F(x) over the elements x of seq, in order
RECURSIVE FlatMap(_, _)
FlatMap(F(_), seq) ==
    IF seq = <<>> THEN <<>> ELSE F(Head(seq)) \o FlatMap(F, Tail(seq))

(***************************************************************************)
(* BybitAdapter.fetch_balances                                             *)
(***************************************************************************)
\* BybitAdapter._to_float
ToFloat(raw) == IF Float(raw).raises = "none" THEN Float(raw).value ELSE 0

\* account_sources of fetch_balances
BybitSources ==
    << [label |-> "unified_trading", method |-> "wallet",   account_type |-> "UNIFIED"],
       [label |-> "funding",         method |-> "transfer", account_type |-> "FUND"],
       [label |-> "earn",            method |-> "wallet",   account_type |-> "INVESTMENT"],
       [label |-> "earn",            method |-> "transfer", account_type |-> "EARN"] >>

\* `if total == 0 and available == 0: return None` (line 101)
DropsCoin(total, available) == total = 0 /\ available = 0

\* BybitAdapter._parse_balance_coin: <<>> for None, else the one Balance
ParseBalanceCoin(coin, account_type) ==
    LET currency == IF RawTruthy(coin.coin) THEN coin.coin
                    ELSE IF RawTruthy(coin.currency) THEN coin.currency
                    ELSE "USD"
        total == ToFloat(OrChain(<<coin.walletBalance, coin.transferBalance,
                                   coin.equity, coin.balance>>))
        available == ToFloat(OrChain(<<coin.availableToWithdraw, coin.transferBalance,
                                       coin.walletBalance, coin.equity>>))
    IN IF DropsCoin(total, available) THEN <<>>
       ELSE << [broker |-> "bybit", currency |-> currency, available |-> available,
                total |-> total, account_type |-> account_type] >>

\* What _wallet_coins / _transfer_coins give for a response: the request's
\* exception is caught inside (no coins); the body is read outside the try,
\* so a body whose "result" is null raises AttributeError to the caller.
CoinsOf(resp) ==
    IF RequestRaises(resp) # "none" THEN [exc |-> "none", coins |-> <<>>]
    ELSE IF resp.result = "null" THEN [exc |-> "AttributeError", coins |-> <<>>]
    ELSE [exc |-> "none", coins |-> resp.coins]

\* ---- inputs ----
NoCoin ==
    [coin |-> "None", currency |-> "None", walletBalance |-> "None",
     transferBalance |-> "None", equity |-> "None", balance |-> "None",
     availableToWithdraw |-> "None"]

BybitCoins ==
    { [NoCoin EXCEPT !.coin = "BTC", !.walletBalance = "2", !.availableToWithdraw = "2"],
      [NoCoin EXCEPT !.coin = "ETH", !.walletBalance = "0", !.availableToWithdraw = "0"],
      [NoCoin EXCEPT !.coin = "DOGE", !.walletBalance = "0", !.availableToWithdraw = "5"],
      [NoCoin EXCEPT !.currency = "USDT", !.transferBalance = "2"],
      [NoCoin EXCEPT !.walletBalance = "", !.equity = "3", !.availableToWithdraw = ""],
      [NoCoin EXCEPT !.coin = "XRP", !.walletBalance = "abc"] }

\* The payload lists of the model: up to MaxEntries entries, all but the
\* last one the given first entry.
MaxEntries == 2

PayloadLists(first, entries) ==
    {<<>>} \cup { [i \in 1..n |-> IF i < n THEN first ELSE last] :
                     n \in 1..MaxEntries, last \in entries }

BybitCoinLists ==
    PayloadLists([NoCoin EXCEPT !.coin = "BTC", !.walletBalance = "2",
                                !.availableToWithdraw = "2"],
                 BybitCoins)

BybitWalletResponses ==
    { [status |-> 0, result |-> "null", coins |-> <<>>],
      [status |-> 500, result |-> "null", coins |-> <<>>],
      [status |-> 200, result |-> "null", coins |-> <<>>] }
    \cup [status : {200}, result : {"ok"}, coins : BybitCoinLists]

ByInit ==
    /\ adPc = "idle"
    /\ adStep = 0
    /\ adOut = <<>>
    /\ adEarn = <<>>
    /\ adRaised = "none"
    /\ adCalls = <<>>
    /\ adCache = EmptyDict
    /\ adAccounts = NoAccounts
    /\ adOp = "none"
    /\ adIds = <<>>
    /\ adRows = <<>>
    /\ adFetches = 0

\* adapter.fetch_balances() is called: balances = []
ByBalancesCall ==
    /\ adPc = "idle"
    /\ adPc' = "by_balances"
    /\ adStep' = 1
    /\ UNCHANGED <<adOut, adEarn, adRaised, adCalls, adTk>>

\* one iteration of `for account_label, method, account_type in account_sources`
ByBalancesSource(resp) ==
    /\ adPc = "by_balances"
    /\ adStep <= Len(BybitSources)
    /\ LET src == BybitSources[adStep]
           got == CoinsOf(resp)
           Parse(coin) == ParseBalanceCoin(coin, src.label)
       IN /\ adCalls' = Append(adCalls, [endpoint |-> src.account_type, resp |-> resp])
          /\ IF got.exc # "none"
             THEN /\ adPc' = "raised"
                  /\ adRaised' = got.exc
                  /\ UNCHANGED <<adOut, adStep>>
             ELSE /\ adOut' = adOut \o FlatMap(Parse, got.coins)
                  /\ adStep' = adStep + 1
                  /\ UNCHANGED <<adPc, adRaised>>
    /\ UNCHANGED <<adEarn, adTk>>

\* return balances
ByBalancesReturn ==
    /\ adPc = "by_balances"
    /\ adStep > Len(BybitSources)
    /\ adPc' = "returned"
    /\ UNCHANGED <<adStep, adOut, adEarn, adRaised, adCalls, adTk>>

ByNext ==
    \/ ByBalancesCall /\ UNCHANGED <<aggVars, gwVars, prVars, bdVars>>
    \/ (\E resp \in BybitWalletResponses : ByBalancesSource(resp))
          /\ UNCHANGED <<aggVars, gwVars, prVars, bdVars>>
    \/ ByBalancesReturn /\ UNCHANGED <<aggVars, gwVars, prVars, bdVars>>

BySpecInit == ByInit /\ AggIdle /\ GwIdle /\ PrIdle /\ BdIdle

SpecBybit == BySpecInit /\ [][ByNext]_vars

\* C13: every Balance an adapter's fetch_balances emits has a non-zero
\* total, whatever its available amount (here: exchange B).
Claim_C13 ==
    adPc \in {"by_balances", "returned"}
        => \A i \in 1..Len(adOut) : adOut[i].total # 0

(***************************************************************************)
(* BinanceAdapter.fetch_positions and _fetch_simple_earn_positions         *)
(***************************************************************************)
\* entry.get(key, 0): the default for an absent key
Get0(raw) == IF raw = "absent" THEN "0" ELSE raw

\* positions.append(...) / positions.extend(...), made to add the quantity
\* to a record of the same symbol instead
RECURSIVE EmitMerged(_, _)
EmitMerged(positions, recs) ==
    IF recs = <<>> THEN positions
    ELSE LET rec == Head(recs)
             same == {i \in 1..Len(positions) : positions[i].symbol = rec.symbol}
         IN IF same = {}
            THEN EmitMerged(Append(positions, rec), Tail(recs))
            ELSE LET i == CHOOSE x \in same : TRUE
                 IN EmitMerged([positions EXCEPT ![i].quantity = @ + rec.quantity],
                               Tail(recs))

\* positions.append(Position(...)), positions.extend(earn_positions)
Emit(positions, recs) == positions \o recs

\* A for loop over entries that appends what Entry(e) gives to acc, until an
\* entry raises: the exception and the list as it is then.
RECURSIVE Normalise(_, _, _)
Normalise(Entry(_), entries, acc) ==
    IF entries = <<>> THEN [exc |-> "none", recs |-> acc]
    ELSE LET r == Entry(Head(entries))
         IN IF r.exc # "none" THEN [exc |-> r.exc, recs |-> acc]
            ELSE Normalise(Entry, Tail(entries), Emit(acc, r.recs))

BnPosition(asset, total, account_type) ==
    [broker |-> "binance", symbol |-> asset, quantity |-> total,
     average_price |-> "None", currency |-> asset, account_type |-> account_type]

\* the body of `for entry in data.get("balances", [])` (lines 80-94)
SpotEntry(entry) ==
    LET free == Float(Get0(entry.free))
        locked == Float(Get0(entry.locked))
        total == free.value + locked.value
    IN IF free.raises # "none" THEN [exc |-> free.raises, recs |-> <<>>]
       ELSE IF locked.raises # "none" THEN [exc |-> locked.raises, recs |-> <<>>]
       ELSE IF total = 0 THEN [exc |-> "none", recs |-> <<>>]
       ELSE [exc |-> "none",
             recs |-> << BnPosition(IF entry.asset = "absent" THEN "" ELSE entry.asset,
                                    total, "spot") >>]

\* the body of `for entry in funding_data` (lines 104-119)
FundingEntry(entry) ==
    LET free == Float(Get0(entry.free))
        locked == Float(Get0(entry.locked))
        frozen == Float(Get0(entry.frozen))
        total == free.value + locked.value + frozen.value
    IN IF free.raises # "none" THEN [exc |-> free.raises, recs |-> <<>>]
       ELSE IF locked.raises # "none" THEN [exc |-> locked.raises, recs |-> <<>>]
       ELSE IF frozen.raises # "none" THEN [exc |-> frozen.raises, recs |-> <<>>]
       ELSE IF total = 0 THEN [exc |-> "none", recs |-> <<>>]
       ELSE [exc |-> "none",
             recs |-> << BnPosition(IF entry.asset = "absent" THEN "" ELSE entry.asset,
                                    total, "funding") >>]

\* a raw value as `or` sees it: an absent key reads as the default 0
OrGet0(raw) == IF raw = "absent" THEN "" ELSE raw

\* the body of `for item in data.get("rows", [])` (lines 146-158); the
\* Position is built without an account_type
EarnItem(item) ==
    LET asset == IF RawTruthy(OrGet0(item.asset)) THEN item.asset
                 ELSE IF RawTruthy(OrGet0(item.collateralCoin)) THEN item.collateralCoin
                 ELSE ""
        total == Float(OrChain(<<OrGet0(item.totalAmount), OrGet0(item.amount)>>))
    IN IF total.raises # "none" THEN [exc |-> total.raises, recs |-> <<>>]
       ELSE IF total.value = 0 THEN [exc |-> "none", recs |-> <<>>]
       ELSE [exc |-> "none", recs |-> << BnPosition(asset, total.value, "None") >>]

\* `for p in earn_positions: p.account_type = "earn"`
TagEarn(earn_positions) ==
    [i \in 1..Len(earn_positions) |-> [earn_positions[i] EXCEPT !.account_type = "earn"]]

\* the sub-sources, in the order fetch_positions reads them
BinanceSources ==
    << [account_type |-> "spot",    endpoint |-> "/api/v3/account"],
       [account_type |-> "funding", endpoint |-> "/sapi/v1/asset/get-funding-asset"],
       [account_type |-> "earn",    endpoint |-> "/sapi/v1/simple-earn/flexible/position"],
       [account_type |-> "earn",    endpoint |-> "/sapi/v1/simple-earn/locked/position"] >>

\* ---- inputs ----
NoEntry == [asset |-> "absent", free |-> "absent", locked |-> "absent", frozen |-> "absent"]

GoodEntry == [NoEntry EXCEPT !.asset = "BTC", !.free = "2", !.locked = "0"]

SpotEntries ==
    { GoodEntry,
      [NoEntry EXCEPT !.asset = "ETH", !.free = "0", !.locked = "0"],
      [NoEntry EXCEPT !.asset = "BNB", !.locked = "3"],
      [NoEntry EXCEPT !.asset = "XRP", !.free = "abc", !.locked = "0"] }

FundingEntries ==
    { [NoEntry EXCEPT !.asset = "BTC", !.free = "5", !.locked = "0", !.frozen = "0"],
      [NoEntry EXCEPT !.asset = "ETH", !.free = "0", !.locked = "0", !.frozen = "0"],
      [NoEntry EXCEPT !.asset = "XRP", !.free = "0", !.locked = "0", !.frozen = "None"] }

NoItem ==
    [asset |-> "absent", collateralCoin |-> "absent", totalAmount |-> "absent",
     amount |-> "absent"]

GoodItem == [NoItem EXCEPT !.asset = "BTC", !.totalAmount = "3"]

EarnItems ==
    { GoodItem,
      [NoItem EXCEPT !.asset = "ETH", !.totalAmount = "0", !.amount = "5"],
      [NoItem EXCEPT !.collateralCoin = "USDT", !.amount = "2"],
      [NoItem EXCEPT !.asset = "XRP", !.totalAmount = "abc"] }

BinanceResponsesOf(lists) ==
    { [status |-> 0, rows |-> <<>>], [status |-> 500, rows |-> <<>>] }
    \cup [status : {200}, rows : lists]

SpotResponses == BinanceResponsesOf(PayloadLists(GoodEntry, SpotEntries))
FundingResponses ==
    BinanceResponsesOf(PayloadLists([GoodEntry EXCEPT !.free = "5"], FundingEntries))
EarnResponses == BinanceResponsesOf(PayloadLists(GoodItem, EarnItems))

BnInit ==
    /\ adPc = "idle"
    /\ adStep = 0
    /\ adOut = <<>>
    /\ adEarn = <<>>
    /\ adRaised = "none"
    /\ adCalls = <<>>
    /\ adCache = EmptyDict
    /\ adAccounts = NoAccounts
    /\ adOp = "none"
    /\ adIds = <<>>
    /\ adRows = <<>>
    /\ adFetches = 0

\* adapter.fetch_positions() is called: positions = []
BnPositionsCall ==
    /\ adPc = "idle"
    /\ adPc' = "bn_positions"
    /\ adStep' = 1
    /\ UNCHANGED <<adOut, adEarn, adRaised, adCalls, adTk>>

\* What a try statement around a request and its loop leaves in the list.
TriedLoop(Entry(_), resp, acc) ==
    IF RequestRaises(resp) # "none" THEN acc
    ELSE Normalise(Entry, resp.rows, acc).recs

\* lines 76-96: the spot account, inside try ... except Exception: pass
BnSpot(resp) ==
    /\ adPc = "bn_positions"
    /\ adStep = 1
    /\ adCalls' = Append(adCalls, [source |-> 1, resp |-> resp])
    /\ adOut' = TriedLoop(SpotEntry, resp, adOut)
    /\ adStep' = 2
    /\ UNCHANGED <<adPc, adEarn, adRaised, adTk>>

\* lines 98-122: the funding wallet, inside try ... except Exception: pass
BnFunding(resp) ==
    /\ adPc = "bn_positions"
    /\ adStep = 2
    /\ adCalls' = Append(adCalls, [source |-> 2, resp |-> resp])
    /\ adOut' = TriedLoop(FundingEntry, resp, adOut)
    /\ adStep' = 3
    /\ UNCHANGED <<adPc, adEarn, adRaised, adTk>>

\* _fetch_simple_earn_positions, one iteration of `for endpoint in endpoints`:
\* only the request is inside the try; the loop over the rows is not
BnEarn(resp) ==
    /\ adPc = "bn_positions"
    /\ adStep \in {3, 4}
    /\ adCalls' = Append(adCalls, [source |-> adStep, resp |-> resp])
    /\ IF RequestRaises(resp) # "none"
       THEN /\ adStep' = adStep + 1
            /\ UNCHANGED <<adPc, adEarn, adRaised>>
       ELSE LET n == Normalise(EarnItem, resp.rows, adEarn)
            IN IF n.exc # "none"
               THEN /\ adPc' = "raised"
                    /\ adRaised' = n.exc
                    /\ UNCHANGED <<adStep, adEarn>>
               ELSE /\ adEarn' = n.recs
                    /\ adStep' = adStep + 1
                    /\ UNCHANGED <<adPc, adRaised>>
    /\ UNCHANGED <<adOut, adTk>>

\* lines 125-131: tag the earn positions, extend, return positions
BnPositionsReturn ==
    /\ adPc = "bn_positions"
    /\ adStep = 5
    /\ adOut' = Emit(adOut, TagEarn(adEarn))
    /\ adPc' = "returned"
    /\ UNCHANGED <<adStep, adEarn, adRaised, adCalls, adTk>>

BnNext ==
    \/ BnPositionsCall /\ UNCHANGED <<aggVars, gwVars, prVars, bdVars>>
    \/ (\E resp \in SpotResponses : BnSpot(resp)) /\ UNCHANGED <<aggVars, gwVars, prVars, bdVars>>
    \/ (\E resp \in FundingResponses : BnFunding(resp))
          /\ UNCHANGED <<aggVars, gwVars, prVars, bdVars>>
    \/ (\E resp \in EarnResponses : BnEarn(resp)) /\ UNCHANGED <<aggVars, gwVars, prVars, bdVars>>
    \/ BnPositionsReturn /\ UNCHANGED <<aggVars, gwVars, prVars, bdVars>>

BnSpecInit == BnInit /\ AggIdle /\ GwIdle /\ PrIdle /\ BdIdle

SpecBinance == BnSpecInit /\ [][BnNext]_vars

(***************************************************************************)
(* Claims about exchange A's fetch_positions                               *)
(***************************************************************************)
\* What one entry of sub-source k's payload normalises to, with the
\* sub-source's tag.
EntryOf(k, entry) ==
    IF k = 1 THEN SpotEntry(entry)
    ELSE IF k = 2 THEN FundingEntry(entry)
    ELSE [EarnItem(entry) EXCEPT !.recs = TagEarn(@)]

\* The sub-source of a call failed: its request did, or one of its entries
\* cannot be normalised.
SourceFailed(call) ==
    \/ RequestRaises(call.resp) # "none"
    \/ \E i \in 1..Len(call.resp.rows) : EntryOf(call.source, call.resp.rows[i]).exc # "none"

\* One record per non-zero entry of rows, in order, up to the first entry
\* that cannot be normalised.
RECURSIVE RecordsOf(_, _)
RecordsOf(k, rows) ==
    IF rows = <<>> THEN <<>>
    ELSE IF EntryOf(k, Head(rows)).exc # "none" THEN <<>>
    ELSE EntryOf(k, Head(rows)).recs \o RecordsOf(k, Tail(rows))

\* The records of the sub-sources that did not fail, in the order called.
RECURSIVE RecordsOfSucceeded(_)
RecordsOfSucceeded(calls) ==
    IF calls = <<>> THEN <<>>
    ELSE (IF SourceFailed(Head(calls)) THEN <<>>
          ELSE RecordsOf(Head(calls).source, Head(calls).resp.rows))
         \o RecordsOfSucceeded(Tail(calls))

\* C15: fetch_positions of exchange A never raises, whichever sub-source
\* fails in its request or in normalising its payload; what it returns is
\* the records of the sub-sources that did not fail, the failed ones
\* contributing nothing.
Claim_C15 ==
    /\ adPc # "raised"
    /\ adPc = "returned" => adOut = RecordsOfSucceeded(adCalls)

\* The records of the entries the adapter normalised, sub-source by
\* sub-source: nothing for a failed request, the entries before the first
\* malformed one otherwise.
RECURSIVE RecordsNormalised(_)
RecordsNormalised(calls) ==
    IF calls = <<>> THEN <<>>
    ELSE (IF RequestRaises(Head(calls).resp) # "none" THEN <<>>
          ELSE RecordsOf(Head(calls).source, Head(calls).resp.rows))
         \o RecordsNormalised(Tail(calls))

\* The number of records of recs for asset under account_type.
CountOf(recs, asset, account_type) ==
    Cardinality({i \in 1..Len(recs) :
                    recs[i].symbol = asset /\ recs[i].account_type = account_type})

\* C20: what fetch_positions of exchange A returns is one Position per
\* non-zero entry it normalised, in the order read, each with the entry's own
\* quantity and the account_type of its sub-source (spot, funding, earn):
\* records of the same symbol are never summed into one, so an asset held in
\* k sub-accounts gives k records.
Thm_C20 ==
    adPc = "returned"
        => /\ adOut = RecordsNormalised(adCalls)
           /\ \A i \in 1..Len(adOut) :
                adOut[i].account_type
                    = BinanceSources[
                        (CHOOSE c \in 1..Len(adCalls) :
                            /\ Len(RecordsNormalised(SubSeq(adCalls, 1, c - 1))) < i
                            /\ i <= Len(RecordsNormalised(SubSeq(adCalls, 1, c)))
                        )].account_type
           /\ \A asset \in {"BTC", "ETH", "BNB", "XRP", "USDT"} :
                Cardinality({i \in 1..Len(adOut) : adOut[i].symbol = asset})
                    = CountOf(RecordsNormalised(adCalls), asset, "spot")
                      + CountOf(RecordsNormalised(adCalls), asset, "funding")
                      + CountOf(RecordsNormalised(adCalls), asset, "earn")

\* C20 witness: BTC held in the spot account (2), the funding wallet (5) and
\* flexible earn (3) came back as three records, one per sub-account.
Wit_C20 ==
    /\ adPc = "returned"
    /\ adOut = << BnPosition("BTC", 2, "spot"),
                  BnPosition("BTC", 5, "funding"),
                  BnPosition("BTC", 3, "earn") >>

(***************************************************************************)
(* InteractiveBrokersAdapter.fetch_positions: the Position records made of *)
(* what client.fetch() returned (lines 226-238)                            *)
(***************************************************************************)
IbFetchPositions(positions_raw) ==
    [i \in 1..Len(positions_raw) |->
        [broker |-> "interactive_brokers",
         symbol |-> positions_raw[i].symbol,
         quantity |-> positions_raw[i].qty,
         average_price |-> positions_raw[i].avg_cost,
         currency |-> positions_raw[i].currency]]

\* C14: every Position an adapter's fetch_positions emits has a non-zero
\* quantity (here: the gateway broker, whose fetch_positions returns when the
\* client's fetch() has returned).
Claim_C14 ==
    gwPc = "returned"
        => \A i \in 1..Len(gwPositions) : IbFetchPositions(gwPositions)[i].quantity # 0

(***************************************************************************)
(* TinkoffAdapter (adapters/tinkoff.py).  Amounts are counted in nanos     *)
(* (units * 10^9 + nano, units of 2 at most); a symbol is the sequence of its parts, so        *)
(* "TCS.MOEX" is <<"TCS", "MOEX">>.  One adapter instance serves up to     *)
(* MaxFetches calls, its instrument cache living across them.              *)
(***************************************************************************)
NanoPerUnit == 1000000000

\* _money_to_float / _quantity_to_float on {units, nano}
MoneyToFloat(amount) ==
    LET units == Float(Get0(amount.units))
        nano == Float(Get0(amount.nano))
    IN IF units.raises # "none" THEN [exc |-> units.raises, value |-> 0]
       ELSE IF nano.raises # "none" THEN [exc |-> nano.raises, value |-> 0]
       ELSE [exc |-> "none", value |-> units.value * NanoPerUnit + nano.value]

\* _quantity_value: None, a {units, nano} dict, or a number or string
QuantityValue(raw) ==
    IF raw.kind = "none" THEN [exc |-> "none", value |-> 0]
    ELSE IF raw.kind = "dict" THEN MoneyToFloat(raw)
    ELSE [exc |-> "none", value |-> ToFloat(raw.raw) * NanoPerUnit]

\* position.get("currentPrice", {}) read by _money_to_float: a null price
\* has no .get
PriceToFloat(price) ==
    IF price.kind = "null" THEN [exc |-> "AttributeError", value |-> 0]
    ELSE IF price.kind = "absent" THEN [exc |-> "none", value |-> 0]
    ELSE MoneyToFloat(price)

\* self._instrument_cache[figi] = symbol, left out
CacheSetSkipped(cache, figi, symbol) == cache

\* a cache that holds the last resolution only
CacheSetEvicting(cache, figi, symbol) == [x \in {figi} |-> symbol]

\* self._instrument_cache[figi] = symbol
CacheSet(cache, figi, symbol) == DictSet(cache, figi, symbol)

\* TinkoffAdapter._resolve_symbol, given the answer a request would get:
\* the symbol, the cache afterwards, whether the request was made, and
\* whether its answer resolved the symbol.
ResolveSymbol(cache, figi, instrument_type, resp) ==
    IF ~RawTruthy(figi)
    THEN [symbol |-> <<instrument_type>>, cache |-> cache, requested |-> FALSE,
          resolved |-> FALSE]
    ELSE IF figi \in DOMAIN cache /\ cache[figi] # <<>>
    THEN [symbol |-> cache[figi], cache |-> cache, requested |-> FALSE,
          resolved |-> FALSE]
    ELSE IF RequestRaises(resp) # "none"
    THEN [symbol |-> <<figi>>, cache |-> cache, requested |-> TRUE,
          resolved |-> FALSE]
    ELSE IF RawTruthy(resp.ticker)
    THEN LET symbol == IF RawTruthy(resp.classCode)
                       THEN <<resp.ticker, resp.classCode>> ELSE <<resp.ticker>>
         IN [symbol |-> symbol, cache |-> CacheSet(cache, figi, symbol),
             requested |-> TRUE, resolved |-> TRUE]
    ELSE IF RawTruthy(resp.figi)
    THEN [symbol |-> <<resp.figi>>, cache |-> CacheSet(cache, figi, <<resp.figi>>),
          requested |-> TRUE, resolved |-> TRUE]
    ELSE [symbol |-> <<figi>>, cache |-> cache, requested |-> TRUE,
          resolved |-> FALSE]

\* _account_ids that ignores the configuration and always discovers
ConfiguredIdsIgnored(config) == <<>>

\* TinkoffAdapter._account_ids, the configured part (lines 101-104): the
\* ids, or <<>> when the accounts have to be discovered
ConfiguredIds(config) ==
    IF config.account_ids # <<>> THEN config.account_ids
    ELSE IF RawTruthy(config.account_id) THEN <<config.account_id>>
    ELSE <<>>

\* lines 110-115: the open accounts of the discovery response
RECURSIVE OpenAccounts(_)
OpenAccounts(accounts) ==
    IF accounts = <<>> THEN <<>>
    ELSE (IF Head(accounts).status = "ACCOUNT_STATUS_OPEN" /\ RawTruthy(Head(accounts).id)
          THEN <<Head(accounts).id>> ELSE <<>>)
         \o OpenAccounts(Tail(accounts))

\* the body of `for money in data.get("money", [])` (lines 130-141)
MoneyEntry(money) ==
    LET total == MoneyToFloat(money)
    IN IF total.exc # "none" THEN [exc |-> total.exc, recs |-> <<>>]
       ELSE IF total.value = 0 THEN [exc |-> "none", recs |-> <<>>]
       ELSE [exc |-> "none",
             recs |-> << [broker |-> "tinkoff", currency |-> Upper(money.currency),
                          available |-> total.value, total |-> total.value] >>]

\* ---- inputs ----
MaxFetches == 2

TkConfigs ==
    { NoAccounts,
      [account_ids |-> <<>>, account_id |-> "a1"],
      [account_ids |-> <<"a1", "a2">>, account_id |-> "None"],
      [account_ids |-> <<"a1", "a2">>, account_id |-> "a3"] }

DiscoveryResponses ==
    { [status |-> 500, accounts |-> <<>>],
      [status |-> 200, accounts |-> <<>>],
      [status |-> 200, accounts |-> << [id |-> "a1", status |-> "ACCOUNT_STATUS_OPEN"],
                                       [id |-> "a2", status |-> "ACCOUNT_STATUS_CLOSED"] >>],
      [status |-> 200, accounts |-> << [id |-> "a1", status |-> "ACCOUNT_STATUS_OPEN"],
                                       [id |-> "a2", status |-> "ACCOUNT_STATUS_OPEN"] >>] }

Money(currency, units, nano) ==
    [kind |-> "money", currency |-> currency, units |-> units, nano |-> nano]

Rub == <<"r", "u", "b">>

MoneyEntries ==
    { Money(Rub, "2", "0"), Money(USD, "0", "0"), Money(USD, "0", "5"),
      Money(USD, "abc", "0") }

NoPrice == [kind |-> "absent", currency |-> USD, units |-> "0", nano |-> "0"]
NullPrice == [kind |-> "null", currency |-> USD, units |-> "0", nano |-> "0"]

Quantity(kind, units, raw) == [kind |-> kind, units |-> units, nano |-> "0", raw |-> raw]

TkPosition(figi, quantity, price) ==
    [figi |-> figi, instrumentType |-> "share", quantity |-> quantity,
     currentPrice |-> price, averagePositionPrice |-> Money(USD, "1", "0")]

GoodPosition == TkPosition("F1", Quantity("dict", "2", ""), Money(USD, "2", "0"))

TkPositions ==
    { GoodPosition,
      TkPosition("F1", Quantity("dict", "0", ""), Money(USD, "2", "0")),
      TkPosition("F2", Quantity("raw", "", "1"), NoPrice),
      TkPosition("None", Quantity("raw", "", "2"), Money(Rub, "2", "0")),
      TkPosition("F1", Quantity("dict", "2", ""), NullPrice) }

AccountResponses(lists) ==
    { [status |-> 500, rows |-> <<>>] } \cup [status : {200}, rows : lists]

MoneyResponses == AccountResponses(PayloadLists(Money(Rub, "2", "0"), MoneyEntries))
PortfolioResponses == AccountResponses(PayloadLists(GoodPosition, TkPositions))

InstrumentResponses ==
    { [status |-> 500, ticker |-> "None", classCode |-> "None", figi |-> "None"],
      [status |-> 200, ticker |-> "TCS", classCode |-> "MOEX", figi |-> "F1"],
      [status |-> 200, ticker |-> "None", classCode |-> "None", figi |-> "F9"],
      [status |-> 200, ticker |-> "None", classCode |-> "None", figi |-> "None"] }

\* an entry of the history of a call: a request and its answer (for an
\* instrument request, rows is the symbol the answer resolved to, if any)
TkLog(kind, id, status, rows) == [kind |-> kind, id |-> id, status |-> status, rows |-> rows]

\* TinkoffAdapter.__init__: the cache is empty
TkInit ==
    /\ adPc = "idle"
    /\ adStep = 0
    /\ adOut = <<>>
    /\ adEarn = <<>>
    /\ adRaised = "none"
    /\ adCalls = <<>>
    /\ adCache = EmptyDict
    /\ adAccounts \in TkConfigs
    /\ adOp = "none"
    /\ adIds = <<>>
    /\ adRows = <<>>
    /\ adFetches = 0

\* adapter.fetch_balances() or adapter.fetch_positions() is called, up to
\* the configured part of _account_ids()
TkCall(op) ==
    /\ adPc \in {"idle", "returned", "raised"}
    /\ adFetches < MaxFetches
    /\ adFetches' = adFetches + 1
    /\ adOp' = op
    /\ adOut' = <<>>
    /\ adRaised' = "none"
    /\ adCalls' = <<>>
    /\ adIds' = ConfiguredIds(adAccounts)
    /\ adStep' = 1
    /\ adRows' = <<>>
    /\ adPc' = IF ConfiguredIds(adAccounts) # <<>> THEN "tk_loop" ELSE "tk_discover"
    /\ UNCHANGED <<adEarn, adCache, adAccounts>>

\* _account_ids(), lines 106-115, and `if not account_ids: return`
TkDiscover(resp) ==
    /\ adPc = "tk_discover"
    /\ adCalls' = Append(adCalls, TkLog("accounts", "", resp.status, resp.accounts))
    /\ IF RequestRaises(resp) # "none"
       THEN /\ adPc' = "raised"
            /\ adRaised' = RequestRaises(resp)
            /\ UNCHANGED adIds
       ELSE /\ adIds' = OpenAccounts(resp.accounts)
            /\ adPc' = IF adIds' = <<>> THEN "returned" ELSE "tk_loop"
            /\ UNCHANGED adRaised
    /\ UNCHANGED <<adStep, adOut, adEarn, adCache, adAccounts, adOp, adRows, adFetches>>

\* fetch_balances, one iteration of `for account_id in account_ids`
TkBalancesAccount(resp) ==
    /\ adPc = "tk_loop"
    /\ adOp = "fetch_balances"
    /\ adStep <= Len(adIds)
    /\ adCalls' = Append(adCalls, TkLog("money", adIds[adStep], resp.status, resp.rows))
    /\ LET n == IF RequestRaises(resp) # "none"
                THEN [exc |-> RequestRaises(resp), recs |-> adOut]
                ELSE Normalise(MoneyEntry, resp.rows, adOut)
       IN IF n.exc # "none"
          THEN /\ adPc' = "raised"
               /\ adRaised' = n.exc
               /\ UNCHANGED <<adStep, adOut>>
          ELSE /\ adOut' = n.recs
               /\ adStep' = adStep + 1
               /\ UNCHANGED <<adPc, adRaised>>
    /\ UNCHANGED <<adEarn, adTk>>

\* fetch_positions, the request of one iteration of the account loop
TkPortfolio(resp) ==
    /\ adPc = "tk_loop"
    /\ adOp = "fetch_positions"
    /\ adStep <= Len(adIds)
    /\ adCalls' = Append(adCalls, TkLog("portfolio", adIds[adStep], resp.status, resp.rows))
    /\ IF RequestRaises(resp) # "none"
       THEN /\ adPc' = "raised"
            /\ adRaised' = RequestRaises(resp)
            /\ UNCHANGED adRows
       ELSE /\ adPc' = "tk_rows"
            /\ adRows' = resp.rows
            /\ UNCHANGED adRaised
    /\ UNCHANGED <<adStep, adOut, adEarn, adCache, adAccounts, adOp, adIds, adFetches>>

\* fetch_positions, one iteration of `for position in data.get("positions", [])`
\* (lines 158-192); resp answers the instrument request if one is made
TkPositionRow(resp) ==
    /\ adPc = "tk_rows"
    /\ adRows # <<>>
    /\ LET position == Head(adRows)
           qty == QuantityValue(position.quantity)
           current == PriceToFloat(position.currentPrice)
           average == PriceToFloat(position.averagePositionPrice)
           price == IF current.value = 0 THEN average ELSE current
           r == ResolveSymbol(adCache, position.figi, position.instrumentType, resp)
           symbol == IF RawTruthy(position.figi) THEN r.symbol ELSE <<"UNKNOWN">>
           exc == IF qty.exc # "none" THEN qty.exc
                  ELSE IF qty.value = 0 THEN "none"
                  ELSE IF current.exc # "none" THEN current.exc
                  ELSE IF current.value = 0 /\ average.exc # "none" THEN average.exc
                  ELSE "none"
       IN IF exc # "none"
          THEN /\ adPc' = "raised"
               /\ adRaised' = exc
               /\ UNCHANGED <<adOut, adRows, adCache, adCalls>>
          ELSE IF qty.value = 0
          THEN /\ adRows' = Tail(adRows)
               /\ UNCHANGED <<adPc, adRaised, adOut, adCache, adCalls>>
          ELSE /\ adRows' = Tail(adRows)
               /\ adCache' = IF RawTruthy(position.figi) THEN r.cache ELSE adCache
               /\ adCalls' = IF RawTruthy(position.figi) /\ r.requested
                             THEN Append(adCalls,
                                         TkLog("instrument", position.figi, resp.status,
                                               IF r.resolved THEN r.symbol ELSE <<>>))
                             ELSE adCalls
               /\ adOut' = Append(adOut,
                                  [broker |-> "tinkoff", symbol |-> symbol,
                                   quantity |-> qty.value, average_price |-> price.value,
                                   currency |-> Upper(position.currentPrice.currency)])
               /\ UNCHANGED <<adPc, adRaised>>
    /\ UNCHANGED <<adStep, adEarn, adAccounts, adOp, adIds, adFetches>>

\* the positions of the account are read: on to the next account
TkAccountDone ==
    /\ adPc = "tk_rows"
    /\ adRows = <<>>
    /\ adPc' = "tk_loop"
    /\ adStep' = adStep + 1
    /\ UNCHANGED <<adOut, adEarn, adRaised, adCalls, adTk>>

\* return balances / return positions
TkReturn ==
    /\ adPc = "tk_loop"
    /\ adStep > Len(adIds)
    /\ adPc' = "returned"
    /\ UNCHANGED <<adStep, adOut, adEarn, adRaised, adCalls, adTk>>

TkNext ==
    \/ (\E op \in {"fetch_balances", "fetch_positions"} : TkCall(op))
          /\ UNCHANGED <<aggVars, gwVars, prVars, bdVars>>
    \/ (\E resp \in DiscoveryResponses : TkDiscover(resp))
          /\ UNCHANGED <<aggVars, gwVars, prVars, bdVars>>
    \/ (\E resp \in MoneyResponses : TkBalancesAccount(resp))
          /\ UNCHANGED <<aggVars, gwVars, prVars, bdVars>>
    \/ (\E resp \in PortfolioResponses : TkPortfolio(resp))
          /\ UNCHANGED <<aggVars, gwVars, prVars, bdVars>>
    \/ (\E resp \in InstrumentResponses : TkPositionRow(resp))
          /\ UNCHANGED <<aggVars, gwVars, prVars, bdVars>>
    \/ TkAccountDone /\ UNCHANGED <<aggVars, gwVars, prVars, bdVars>>
    \/ TkReturn /\ UNCHANGED <<aggVars, gwVars, prVars, bdVars>>

TkSpecInit == TkInit /\ AggIdle /\ GwIdle /\ PrIdle /\ BdIdle

SpecTinkoff == TkSpecInit /\ [][TkNext]_vars

(***************************************************************************)
(* Claims about the brokerage adapter                                      *)
(***************************************************************************)
\* The account requests of the call, and those that failed.
AccountRequests == {i \in 1..Len(adCalls) : adCalls[i].kind \in {"money", "portfolio"}}
FailedAccountRequests == {i \in AccountRequests : adCalls[i].status # 200}

\* The balances of the accounts whose request succeeded, in the order asked.
RECURSIVE BalancesOfSucceeded(_)
BalancesOfSucceeded(calls) ==
    IF calls = <<>> THEN <<>>
    ELSE (IF Head(calls).kind = "money" /\ Head(calls).status = 200
          THEN FlatMap(LAMBDA money : MoneyEntry(money).recs, Head(calls).rows)
          ELSE <<>>)
         \o BalancesOfSucceeded(Tail(calls))

\* C16: when the request for one account id fails, fetch_balances and
\* fetch_positions of the brokerage adapter do not raise, go on to the
\* account ids after it, and return the records of the other accounts.
Claim_C16 ==
    /\ FailedAccountRequests # {} => adPc # "raised"
    /\ (adPc = "returned" /\ adIds # <<>>) => Cardinality(AccountRequests) = Len(adIds)
    /\ (adPc = "returned" /\ adOp = "fetch_balances")
         => adOut = BalancesOfSucceeded(adCalls)

\* The instrument requests of the call for figi, as indices of its history.
InstrumentRequests(figi) ==
    {i \in 1..Len(adCalls) : adCalls[i].kind = "instrument" /\ adCalls[i].id = figi}

Figis == {"F1", "F2"}

\* C17 as stated: the positions of a call that share an instrument
\* identifier trigger one resolution request for it, not more.
Claim_C17 == \A figi \in Figis : Cardinality(InstrumentRequests(figi)) <= 1

\* C17, amended: a resolution request is made only for an identifier that is
\* not in the cache; a request that succeeds puts the identifier in the
\* cache, so within a call no request for an identifier follows a successful
\* one, and once an identifier is cached no position with it, in any account
\* or later call, triggers a request.  (A failed resolution caches nothing:
\* the next position with the identifier asks again.)
Thm_C17 ==
    /\ [](\A figi \in Figis :
            /\ \A i \in InstrumentRequests(figi), j \in InstrumentRequests(figi) :
                 i < j => adCalls[i].rows = <<>>
            /\ \A i \in InstrumentRequests(figi) :
                 adCalls[i].rows # <<>>
                    => (figi \in DOMAIN adCache /\ adCache[figi] = adCalls[i].rows))
    /\ [][\A figi \in DOMAIN adCache :
            Cardinality(InstrumentRequests(figi)') <= Cardinality(InstrumentRequests(figi))]_vars

\* C17 witness: one call read the same instrument in two accounts, asked
\* for it once, and gave both positions the resolved symbol.
Wit_C17 ==
    /\ adPc = "returned"
    /\ adOp = "fetch_positions"
    /\ adFetches = 1
    /\ adIds = <<"a1", "a2">>
    /\ Len(adOut) = 2
    /\ \A i \in 1..Len(adOut) : adOut[i].symbol = <<"TCS", "MOEX">>
    /\ Cardinality(InstrumentRequests("F1")) = 1

\* C17, a later call: the second fetch_positions read the instrument again
\* and made no resolution request at all.
Wit_C17_later ==
    /\ adPc = "returned"
    /\ adOp = "fetch_positions"
    /\ adFetches = 2
    /\ Len(adOut) = 2
    /\ \A i \in 1..Len(adOut) : adOut[i].symbol = <<"TCS", "MOEX">>
    /\ InstrumentRequests("F1") = {}

(***************************************************************************)
(* Adapter registration and construction                                   *)
(* (core/config.py, BalanceService._build_adapters, the adapters' __init__)*)
(*                                                                         *)
(* An Optional[str] is "None" or the string; an Optional[int] is <<>> or   *)
(* <<n>>.                                                                  *)
(***************************************************************************)
\* BinanceConfig.is_configured / BybitConfig.is_configured
KeysConfigured(config) == RawTruthy(config.api_key) /\ RawTruthy(config.api_secret)

\* TinkoffConfig.is_configured
TokenConfigured(config) == RawTruthy(config.token)

\* IBKRConfig.is_configured
IbkrConfigured(config) ==
    RawTruthy(config.host) /\ config.port # <<>> /\ config.client_id # <<>>

\* config.is_configured() of the venue's configuration class
IsConfigured(venue, config) ==
    CASE venue = "tinkoff" -> TokenConfigured(config)
      [] venue = "bybit"   -> KeysConfigured(config)
      [] venue = "binance" -> KeysConfigured(config)
      [] venue = "ibkr"    -> IbkrConfigured(config)

\* what an adapter's __init__ does after its guard, in order
InitBody(venue, config) ==
    CASE venue = "tinkoff" -> <<"_config", "create_http_client", "_instrument_cache">>
      [] venue = "bybit"   -> <<"_config", "create_http_client">>
      [] venue = "binance" -> <<"_config", "create_http_client">>
      [] venue = "ibkr"    -> <<"_config">> \o (IF RawTruthy(config.ibapi_path)
                                                THEN <<"sys.path.insert">> ELSE <<>>)

\* a run of a constructor: what it did, what it raised, whether the caller
\* got an instance
CtorRun(venue, steps, exc) ==
    [venue |-> venue, steps |-> steps, exc |-> exc, instance |-> exc = "none"]

\* an __init__ whose guard comes after its body
ConstructLate(venue, config) ==
    CtorRun(venue, InitBody(venue, config) \o <<"is_configured">>,
            IF IsConfigured(venue, config) THEN "none" ELSE "ValueError")

\* TinkoffAdapter/BybitAdapter/BinanceAdapter/InteractiveBrokersAdapter
\* .__init__: the guard raises ValueError before anything else is done
Construct(venue, config) ==
    IF ~IsConfigured(venue, config)
    THEN CtorRun(venue, <<"is_configured">>, "ValueError")
    ELSE CtorRun(venue, <<"is_configured">> \o InitBody(venue, config), "none")

\* the adapter instance: its class and its self._config
Instance(venue, config) == [venue |-> venue, config |-> config]

\* the order of the four blocks of _build_adapters
BuildOrder == <<"tinkoff", "bybit", "binance", "ibkr">>

\* a block of _build_adapters without its `if`
RegistersAlways(venue, config) == TRUE

\* the `if self._settings.<venue>.is_configured():` of a block
Registers(venue, config) == IsConfigured(venue, config)

Credentials == {"None", "", "k"}
Ports == {<<>>, <<0>>, <<7497>>}
ClientIds == {<<>>, <<1>>}

SettingsUniverse ==
    [tinkoff : [token : Credentials],
     bybit   : [api_key : Credentials, api_secret : Credentials],
     binance : [api_key : Credentials, api_secret : Credentials],
     ibkr    : [host : {"None", "", "127.0.0.1"}, port : Ports,
                client_id : ClientIds, ibapi_path : {"None", "p"}]]

\* the settings are loaded; nothing is built yet
BdInit ==
    /\ settings \in SettingsUniverse
    /\ bdPc = "idle"
    /\ bdIdx = 0
    /\ bdAdapters = <<>>
    /\ bdLog = <<>>
    /\ bdCtor = <<>>
    /\ bdRaised = "none"

\* BalanceService.__init__ with no adapters given: _build_adapters starts
BdBuildCall ==
    /\ bdPc = "idle"
    /\ bdPc' = "building"
    /\ bdIdx' = 1
    /\ bdAdapters' = <<>>
    /\ UNCHANGED <<settings, bdLog, bdCtor, bdRaised>>

\* one block of _build_adapters: construct and append, or log the skip
BdBuildStep ==
    /\ bdPc = "building"
    /\ bdIdx <= Len(BuildOrder)
    /\ LET venue == BuildOrder[bdIdx]
           config == settings[venue]
           run == Construct(venue, config)
       IN IF Registers(venue, config)
          THEN /\ bdCtor' = Append(bdCtor, run)
               /\ IF run.exc # "none"
                  THEN /\ bdPc' = "raised"
                       /\ bdRaised' = run.exc
                       /\ UNCHANGED <<bdIdx, bdAdapters>>
                  ELSE /\ bdAdapters' = Append(bdAdapters, Instance(venue, config))
                       /\ bdIdx' = bdIdx + 1
                       /\ UNCHANGED <<bdPc, bdRaised>>
               /\ UNCHANGED bdLog
          ELSE /\ bdLog' = Append(bdLog, venue)
               /\ bdIdx' = bdIdx + 1
               /\ UNCHANGED <<bdPc, bdRaised, bdAdapters, bdCtor>>
    /\ UNCHANGED settings

\* return adapters
BdBuildReturn ==
    /\ bdPc = "building"
    /\ bdIdx > Len(BuildOrder)
    /\ bdPc' = "built"
    /\ UNCHANGED <<settings, bdIdx, bdAdapters, bdLog, bdCtor, bdRaised>>

\* a caller constructs the venue's adapter from its configuration
BdConstruct(venue) ==
    /\ bdPc = "idle"
    /\ LET config == settings[venue]
           run == Construct(venue, config)
       IN /\ bdCtor' = <<run>>
          /\ bdPc' = IF run.exc = "none" THEN "constructed" ELSE "raised"
          /\ bdRaised' = run.exc
          /\ bdAdapters' = IF run.instance THEN <<Instance(venue, config)>> ELSE <<>>
    /\ UNCHANGED <<settings, bdIdx, bdLog>>

BdNext ==
    \/ BdBuildCall /\ UNCHANGED <<aggVars, gwVars, prVars, adVars>>
    \/ BdBuildStep /\ UNCHANGED <<aggVars, gwVars, prVars, adVars>>
    \/ BdBuildReturn /\ UNCHANGED <<aggVars, gwVars, prVars, adVars>>
    \/ (\E venue \in {"tinkoff", "bybit", "binance", "ibkr"} : BdConstruct(venue))
          /\ UNCHANGED <<aggVars, gwVars, prVars, adVars>>

BdSpecInit == BdInit /\ AggIdle /\ GwIdle /\ PrIdle /\ AdIdle

SpecBuild == BdSpecInit /\ [][BdNext]_vars

\* the venues of a list of instances or constructor runs, in order
VenuesOf(seq) == [i \in 1..Len(seq) |-> seq[i].venue]

\* a credential the venue requires is absent (None) from the settings
CredentialAbsent(venue) ==
    CASE venue = "tinkoff" -> settings.tinkoff.token = "None"
      [] venue = "bybit"   -> "None" \in {settings.bybit.api_key, settings.bybit.api_secret}
      [] venue = "binance" -> "None" \in {settings.binance.api_key, settings.binance.api_secret}
      [] venue = "ibkr"    -> \/ settings.ibkr.host = "None"
                              \/ settings.ibkr.port = <<>>
                              \/ settings.ibkr.client_id = <<>>

\* is_configured() of the venue's configuration in the settings
Configured(venue) == IsConfigured(venue, settings[venue])

\* C18: the list _build_adapters returns is the subsequence of
\* [Brokerage, ExchangeB, ExchangeA, GatewayBroker] (tinkoff, bybit, binance,
\* ibkr) whose configuration reports configured, each built from its own
\* configuration; a venue with an absent credential is neither constructed
\* nor registered; building never raises.
Thm_C18 ==
    bdIdx > 0 =>
      /\ bdPc # "raised"
      /\ bdRaised = "none"
      /\ bdPc = "built" =>
           /\ VenuesOf(bdAdapters)
                = SelectSeq(<<"tinkoff", "bybit", "binance", "ibkr">>, Configured)
           /\ \A i \in 1..Len(bdAdapters) :
                bdAdapters[i].config = settings[bdAdapters[i].venue]
           /\ bdLog
                = SelectSeq(<<"tinkoff", "bybit", "binance", "ibkr">>,
                            LAMBDA venue : ~Configured(venue))
      /\ VenuesOf(bdCtor) = VenuesOf(bdAdapters)
      /\ \A venue \in {"tinkoff", "bybit", "binance", "ibkr"} :
           CredentialAbsent(venue)
             => /\ \A i \in 1..Len(bdCtor) : bdCtor[i].venue # venue
                /\ \A i \in 1..Len(bdAdapters) : bdAdapters[i].venue # venue

\* C18 witness: with the brokerage and ExchangeA configured only, the list
\* built is [Brokerage, ExchangeA] and the other two were skipped.
Wit_C18 ==
    /\ bdPc = "built"
    /\ VenuesOf(bdAdapters) = <<"tinkoff", "binance">>
    /\ bdLog = <<"bybit", "ibkr">>
    /\ CredentialAbsent("bybit")
    /\ CredentialAbsent("ibkr")

\* C18, all four: every venue configured, all four registered in order.
Wit_C18_all ==
    /\ bdPc = "built"
    /\ VenuesOf(bdAdapters) = <<"tinkoff", "bybit", "binance", "ibkr">>

\* C19: constructing a venue adapter from a configuration that is not
\* configured (a required credential absent or empty) raises ValueError from
\* the guard, the first thing the constructor does: nothing is stored, no
\* client is created, no request or connection is made, and the caller gets
\* no instance.
Thm_C19 ==
    (bdIdx = 0 /\ bdCtor # <<>>) =>
      LET run == bdCtor[1]
      IN /\ Len(bdCtor) = 1
         /\ ~Configured(run.venue)
              => /\ bdPc = "raised"
                 /\ bdRaised = "ValueError"
                 /\ run.exc = "ValueError"
                 /\ run.steps = <<"is_configured">>
                 /\ ~run.instance
                 /\ bdAdapters = <<>>
         /\ CredentialAbsent(run.venue) => ~Configured(run.venue)
         /\ Configured(run.venue)
              => /\ bdPc = "constructed"
                 /\ bdAdapters = <<Instance(run.venue, settings[run.venue])>>

\* C19 witness: the gateway adapter constructed from an empty configuration
\* failed with ValueError.
Wit_C19 ==
    /\ bdPc = "raised"
    /\ bdIdx = 0
    /\ bdCtor = <<CtorRun("ibkr", <<"is_configured">>, "ValueError")>>
    /\ settings.ibkr.host = "None"
    /\ settings.ibkr.port = <<>>
    /\ settings.ibkr.client_id = <<>>

(***************************************************************************)
(* Brokerage account discovery                                             *)
(***************************************************************************)
\* The ids of the account requests of the call, in the order made.
RECURSIVE AccountIdsAsked(_)
AccountIdsAsked(calls) ==
    IF calls = <<>> THEN <<>>
    ELSE (IF Head(calls).kind \in {"money", "portfolio"} THEN <<Head(calls).id>> ELSE <<>>)
         \o AccountIdsAsked(Tail(calls))

\* The discovery requests of the call, as indices of its history.
DiscoveryRequests == {i \in 1..Len(adCalls) : adCalls[i].kind = "accounts"}

IsPrefix(a, b) == Len(a) <= Len(b) /\ \A i \in 1..Len(a) : a[i] = b[i]

\* the ids the configuration names: the list, or else the single id
ExplicitIds ==
    IF adAccounts.account_ids # <<>> THEN adAccounts.account_ids
    ELSE IF adAccounts.account_id \notin {"None", ""} THEN <<adAccounts.account_id>>
    ELSE <<>>

\* the open accounts a discovery response lists, in its order
OpenIdsOf(accounts) ==
    SelectSeq([i \in 1..Len(accounts) |->
                  IF accounts[i].status = "ACCOUNT_STATUS_OPEN" THEN accounts[i].id ELSE ""],
              LAMBDA id : id # "")

\* C21: with account ids configured a fetch call makes no discovery request
\* and asks for exactly the configured ids, in order; with none configured
\* a fetch call makes one discovery request, before any account request,
\* and asks only for the open accounts it lists.
Thm_C21 ==
    adOp # "none" =>
      IF ExplicitIds # <<>>
      THEN /\ DiscoveryRequests = {}
           /\ IsPrefix(AccountIdsAsked(adCalls), ExplicitIds)
           /\ adPc = "returned" => AccountIdsAsked(adCalls) = ExplicitIds
      ELSE /\ DiscoveryRequests = (IF adPc = "tk_discover" THEN {} ELSE {1})
           /\ adPc = "tk_discover" => adCalls = <<>>
           /\ adPc # "tk_discover" =>
                /\ IsPrefix(AccountIdsAsked(adCalls), OpenIdsOf(adCalls[1].rows))
                /\ adPc = "returned" =>
                     AccountIdsAsked(adCalls) = OpenIdsOf(adCalls[1].rows)

\* C21 witness: nothing configured; the second fetch call discovered again,
\* found one open and one closed account and asked for the open one only.
Wit_C21 ==
    /\ adAccounts = NoAccounts
    /\ adFetches = 2
    /\ adPc = "returned"
    /\ DiscoveryRequests = {1}
    /\ Len(adCalls[1].rows) = 2
    /\ AccountIdsAsked(adCalls) = <<"a1">>

\* C21, configured: the two configured ids were asked for, with no discovery.
Wit_C21_configured ==
    /\ adAccounts.account_ids = <<"a1", "a2">>
    /\ adPc = "returned"
    /\ DiscoveryRequests = {}
    /\ AccountIdsAsked(adCalls) = <<"a1", "a2">>

(***************************************************************************)
(* Instrument cache stability                                              *)
(***************************************************************************)
\* this step made an instrument request: the entry it added to the history
InstrumentRequested ==
    /\ Len(adCalls') = Len(adCalls) + 1
    /\ adCalls'[Len(adCalls')].kind = "instrument"

LastCall == adCalls'[Len(adCalls')]

\* C28: over any sequence of calls on one instance, an entry of the
\* instrument cache is never removed and never changes; the cache changes
\* only in a step whose instrument request resolved, by the one entry
\* identifier -> resolved symbol; a request that did not resolve leaves the
\* cache as it was and the position gets the raw identifier as its symbol.
Thm_C28 ==
    /\ [][\A figi \in DOMAIN adCache :
             figi \in DOMAIN adCache' /\ adCache'[figi] = adCache[figi]]_vars
    /\ [][adCache' # adCache =>
             /\ InstrumentRequested
             /\ LastCall.rows # <<>>
             /\ LastCall.id \notin DOMAIN adCache
             /\ DOMAIN adCache' = DOMAIN adCache \cup {LastCall.id}
             /\ adCache'[LastCall.id] = LastCall.rows]_vars
    /\ [][(InstrumentRequested /\ LastCall.rows = <<>>) =>
             /\ adCache' = adCache
             /\ Len(adOut') = Len(adOut) + 1
             /\ adOut'[Len(adOut')].symbol = <<LastCall.id>>]_vars

\* C28 witness: a resolution of F1 failed, the cache is still empty, and the
\* position carries the raw identifier.
Wit_C28 ==
    /\ adPc = "tk_rows"
    /\ adCache = EmptyDict
    /\ adCalls # <<>>
    /\ adCalls[Len(adCalls)] = TkLog("instrument", "F1", 500, <<>>)
    /\ adOut # <<>>
    /\ adOut[Len(adOut)].symbol = <<"F1">>

\* C28, kept: in the second call the cache holds the entries of two
\* instruments resolved earlier.
Wit_C28_kept ==
    /\ adFetches = 2
    /\ DOMAIN adCache = {"F1", "F2"}
    /\ adCache["F1"] = <<"TCS", "MOEX">>
    /\ adCalls = <<>>

(***************************************************************************)
(* Claims about the order of the price requests                            *)
(***************************************************************************)
BNB == <<"B", "N", "B">>

\* a ticker request for the pair symbol+quote
IsDirect(r) == r.pair \in {r.symbol \o quote : quote \in {USDT, USDC, USD, BUSD}}

\* the stage 3 requests for the direct, and for the other, pairs of sym
DirectRequests(sym) ==
    SelectSeq(prRequests, LAMBDA r : r.stage = 3 /\ r.symbol = sym /\ IsDirect(r))
InverseRequests(sym) ==
    SelectSeq(prRequests, LAMBDA r : r.stage = 3 /\ r.symbol = sym /\ ~IsDirect(r))

\* price is the price stage 3 has for sym: in its results while it runs, in
\* the price map, written by stage 3, afterwards
Stage3Holds(sym, price) ==
    IF prPc = "binance"
    THEN sym \in DOMAIN results /\ results[sym] = price
    ELSE /\ sym \in DOMAIN price_map
         /\ price_map[sym] = price
         /\ [stage |-> 3, symbol |-> sym] \in prWrites

\* all requests of reqs but the last failed
OnlyLastMaySucceed(reqs) == \A i \in 1..(Len(reqs) - 1) : reqs[i].price = NonePrice

\* C22: for each symbol stage 3 asks exchange A for symbol+USDT, symbol+USDC,
\* symbol+USD, symbol+BUSD in that order; after a failed pair the next one
\* is asked; the first pair that succeeds gives the symbol's price (the
\* number returned) and no pair is asked for the symbol after it.
Thm_C22 ==
    \A sym \in AllCandidates :
      LET d == DirectRequests(sym) IN
        /\ Len(d) <= 4
        /\ \A i \in 1..Len(d) : d[i].pair = sym \o <<USDT, USDC, USD, BUSD>>[i]
        /\ OnlyLastMaySucceed(d)
        /\ (d # <<>> /\ d[Len(d)].price # NonePrice)
             => /\ d[Len(d)].price = d[Len(d)].returned
                /\ Stage3Holds(sym, d[Len(d)].price)
                /\ InverseRequests(sym) = <<>>
        /\ (d # <<>> /\ d[Len(d)].price = NonePrice /\ Len(d) < 4)
             => /\ prPc = "binance"
                /\ cur = sym
                /\ phase = "direct"
                /\ qi = Len(d) + 1

\* C22 witness: BNB failed on USDT and USDC and was priced 2 by BNBUSD;
\* BNBBUSD was never asked.
Wit_C22 ==
    /\ prPc = "done"
    /\ Len(DirectRequests(BNB)) = 3
    /\ DirectRequests(BNB)[3].pair = BNB \o USD
    /\ price_map[BNB] = [num |-> 2, den |-> 1]

\* C23: stage 3 asks for an inverse pair (quote+symbol) only for RUB and
\* only after RUB's four direct pairs all failed; the price made of an
\* inverse answer is the reciprocal of the number returned, and it is RUB's
\* price; no other symbol, and no RUB that a direct pair priced, ever gets
\* an inverse request; stage 4 asks for direct pairs only.
Thm_C23 ==
    /\ \A i \in 1..Len(prRequests) :
         LET r == prRequests[i]
             before == SelectSeq(SubSeq(prRequests, 1, i - 1),
                                 LAMBDA x : x.stage = 3 /\ x.symbol = RUB /\ IsDirect(x))
         IN (r.stage \in {3, 4} /\ ~IsDirect(r))
              => /\ r.stage = 3
                 /\ r.symbol = RUB
                 /\ r.pair \in {quote \o RUB : quote \in {USDT, BUSD, USDC}}
                 /\ Len(before) = 4
                 /\ \A k \in 1..4 : before[k].price = NonePrice
                 /\ r.price # NonePrice
                      => /\ r.returned.num # 0
                         /\ r.price = [num |-> r.returned.den, den |-> r.returned.num]
    /\ \A sym \in AllCandidates \ {RUB} : InverseRequests(sym) = <<>>
    /\ LET inv == InverseRequests(RUB) IN
         /\ OnlyLastMaySucceed(inv)
         /\ (inv # <<>> /\ inv[Len(inv)].price # NonePrice)
              => Stage3Holds(RUB, inv[Len(inv)].price)

\* C23 witness: RUB failed on its four direct pairs and on USDTRUB, and
\* BUSDRUB returned 2: RUB is priced 1/2.
Wit_C23 ==
    /\ prPc = "done"
    /\ Len(DirectRequests(RUB)) = 4
    /\ Len(InverseRequests(RUB)) = 2
    /\ InverseRequests(RUB)[2].pair = BUSD \o RUB
    /\ InverseRequests(RUB)[2].returned = [num |-> 2, den |-> 1]
    /\ price_map[RUB] = [num |-> 1, den |-> 2]

\* the requests to the fiat-rate endpoint
FiatRequests == SelectSeq(prRequests, LAMBDA r : r.stage = 2)

\* C24: the fiat-rate endpoint is asked only when RUB is unresolved after
\* the stablecoin stage, and once; when it succeeds (a rate > 0) RUB is
\* priced 1/rate and never reaches stage 3 or 4; when it fails in any way
\* nothing is raised, RUB is not priced by stage 2 and is handed to stage 3.
Thm_C24 ==
    /\ Len(FiatRequests) <= 1
    /\ RUB \notin AllCandidates => FiatRequests = <<>>
    /\ FiatRequests # <<>> => \E h \in prHanded : h.stage = 2 /\ RUB \in h.set
    /\ (RUB \in AllCandidates /\ prPc \in {"binance", "bybit", "done"})
         => Len(FiatRequests) = 1
    /\ FiatRequests # <<>> =>
         LET r == FiatRequests[1] IN
           IF r.price # NonePrice
           THEN /\ r.returned.num > 0
                /\ r.returned.den = 1
                /\ r.price = [num |-> 1, den |-> r.returned.num]
                /\ price_map[RUB] = r.price
                /\ [stage |-> 2, symbol |-> RUB] \in prWrites
                /\ \A h \in prHanded : h.stage \in {3, 4} => RUB \notin h.set
                /\ RequestsFor(3, RUB) = 0
                /\ RequestsFor(4, RUB) = 0
           ELSE /\ prPc # "raised"
                /\ prRaised = "none"
                /\ [stage |-> 2, symbol |-> RUB] \notin prWrites
                /\ \E h \in prHanded : h.stage = 3 /\ RUB \in h.set

\* C24 witness: the endpoint answered a rate of 80; RUB is priced 1/80 and
\* BNB alone went to the tickers.
Wit_C24 ==
    /\ prPc = "done"
    /\ Len(FiatRequests) = 1
    /\ FiatRequests[1].returned = [num |-> 80, den |-> 1]
    /\ price_map[RUB] = [num |-> 1, den |-> 80]
    /\ RequestsFor(3, BNB) > 0

\* C24, failure: the endpoint failed and RUB was priced by a ticker of
\* stage 3 instead.
Wit_C24_failed ==
    /\ prPc = "done"
    /\ Len(FiatRequests) = 1
    /\ FiatRequests[1].price = NonePrice
    /\ [stage |-> 3, symbol |-> RUB] \in prWrites

(***************************************************************************)
(* Gateway handshake, account filter, termination and hand-off             *)
(***************************************************************************)
\* C25: no request is issued before the handshake acknowledgement: the
\* requests are issued only by the nextValidId callback, both in that one
\* step (account summary, then positions), so either none or both are
\* outstanding; a summary or position callback or completion comes only
\* after its request, and the two kinds of callbacks may interleave.
Thm_C25 ==
    /\ [](requested \in {<<>>, <<"reqAccountSummary", "reqPositions">>})
    /\ []((gwBalances # <<>> \/ net_liquidations # <<>> \/ summary_done)
            => SummaryRequested)
    /\ []((gwPositions # <<>> \/ positions_done) => PositionsRequested)
    /\ [](gwPc = "idle" /\ gwDelivered = 0 => requested = <<>>)
    /\ [][requested' # requested
            => /\ requested = <<>>
               /\ requested' = <<"reqAccountSummary", "reqPositions">>
               /\ thread = "running"
               /\ gwDelivered' = gwDelivered + 1
               /\ UNCHANGED <<gwPc, summary_done, positions_done, gwBalances,
                              net_liquidations, gwPositions, gwError>>]_vars

\* C25 witness: both requests are outstanding, neither has completed, and a
\* position arrived before the balance that followed it.
Wit_C25 ==
    /\ requested = <<"reqAccountSummary", "reqPositions">>
    /\ ~summary_done
    /\ ~positions_done
    /\ gwDelivered = 3
    /\ Len(gwPositions) = 1
    /\ Len(gwBalances) = 1

\* C25, the other order: the positions completed while the account summary
\* was still outstanding.
Wit_C25_positions_first ==
    /\ positions_done
    /\ ~summary_done
    /\ gwBalances = <<>>
    /\ net_liquidations = <<>>
    /\ gwPositions # <<>>

\* the account ids of the filter
FilterIds == {account_filter[i] : i \in 1..Len(account_filter)}

\* C26: with an account filter configured, every collected balance and
\* position is of one of the configured account ids; with none configured
\* every balance and position callback is kept.
Claim_C26 ==
    /\ account_filter # NoFilter
         => /\ \A i \in 1..Len(gwBalances) : gwBalances[i].account \in FilterIds
            /\ \A i \in 1..Len(gwPositions) : gwPositions[i].account \in FilterIds
    /\ account_filter = NoFilter
         => Len(gwBalances) + Len(net_liquidations) + Len(gwPositions) <= gwDelivered

\* C27: whatever the gateway does, also when it never acknowledges the
\* handshake and never completes a request, a fetch() that has started
\* ends, by returning or raising: the elapsed time of the wait loop never
\* exceeds the timeout, every sleep moves it on, and the join returns with
\* the background thread still running.
Thm_C27 ==
    /\ [](now <= Timeout)
    /\ [](gwPc = "sleep" => now < Timeout)
    /\ [][gwPc = "sleep" /\ gwPc' = "while" => now' > now]_vars
    /\ (gwPc = "while" ~> FetchEnded)

\* C27 witness: the gateway stayed silent; fetch() returned after its wait
\* timed out, the background thread still running.
Wit_C27 ==
    /\ gwPc = "returned"
    /\ gwDelivered = 0
    /\ requested = <<>>
    /\ gwExit = [how |-> "timeout", summary |-> FALSE, positions |-> FALSE]
    /\ now = Timeout
    /\ thread = "running"

\* C29: once fetch() has returned or raised, no callback runs any more: the
\* collections it returned and the error slot are not modified, and the
\* background thread delivers nothing.
Claim_C29 ==
    [][FetchEnded => UNCHANGED <<gwBalances, net_liquidations, gwPositions, gwError,
                                 gwDelivered>>]_vars

(***************************************************************************)
(* InteractiveBrokersAdapter: fetch_balances and fetch_positions each      *)
(* build an _IBAccountClient of their own (interactive_brokers.py 191,     *)
(* 220), run its fetch() and convert what it returned.  The client of the  *)
(* call in progress is the gateway state above; adFetches counts the       *)
(* adapter calls, adOp names the method, adOut is what it returned.        *)
(***************************************************************************)

\* a client that keeps what the adapter's previous client held
FreshKept(old, initial) == old

\* _IBAccountClient.__init__ (lines 104-114): every attribute starts from its
\* initial value, whatever an earlier client held
Fresh(old, initial) == initial

\* fetch_balances, lines 198-210: zero amounts are skipped
IbFetchBalances(balances_raw) ==
    LET NonZero(e) == e.amount # 0
        kept == SelectSeq(balances_raw, NonZero)
    IN [i \in 1..Len(kept) |->
           [broker |-> "interactive_brokers",
            currency |-> kept[i].currency,
            available |-> kept[i].amount,
            total |-> kept[i].amount]]

IbOps == {"fetch_balances", "fetch_positions"}

\* no client has been built yet: the adapter only holds its configuration
IbInit ==
    /\ account_filter \in AccountFilters
    /\ gwPc = "noclient"
    /\ now = 0
    /\ connected = FALSE
    /\ thread = "notstarted"
    /\ requested = <<>>
    /\ summary_done = FALSE
    /\ positions_done = FALSE
    /\ gwBalances = <<>>
    /\ net_liquidations = <<>>
    /\ gwPositions = <<>>
    /\ gwError = NoMsg
    /\ gwDelivered = 0
    /\ gwSteps = <<>>
    /\ gwExit = NoExit
    /\ gwRaised = NoMsg
    /\ firedNonBenign = <<>>
    /\ firedBenign = {}
    /\ cbRaised = {}

\* fetch_balances / fetch_positions up to `client = _IBAccountClient(...)`
\* (lines 184-196, 214-225): the filter is read from the configuration and a
\* new client is constructed; the previous call's client is dropped
IbCall(op) ==
    /\ adPc \in {"idle", "returned", "raised"}
    /\ gwPc \in {"noclient", "returned", "raised"}
    /\ adFetches < MaxFetches
    /\ adFetches' = adFetches + 1
    /\ adOp' = op
    /\ adPc' = "ib_fetch"
    /\ adOut' = <<>>
    /\ adRaised' = "none"
    /\ gwPc' = "idle"
    /\ now' = 0
    /\ connected' = Fresh(connected, FALSE)
    /\ thread' = "notstarted"
    /\ requested' = Fresh(requested, <<>>)
    /\ summary_done' = Fresh(summary_done, FALSE)
    /\ positions_done' = Fresh(positions_done, FALSE)
    /\ gwBalances' = Fresh(gwBalances, <<>>)
    /\ net_liquidations' = Fresh(net_liquidations, <<>>)
    /\ gwPositions' = Fresh(gwPositions, <<>>)
    /\ gwError' = Fresh(gwError, NoMsg)
    /\ gwDelivered' = 0
    /\ gwSteps' = <<>>
    /\ gwExit' = NoExit
    /\ gwRaised' = NoMsg
    /\ firedNonBenign' = <<>>
    /\ firedBenign' = {}
    /\ cbRaised' = {}
    /\ UNCHANGED <<account_filter, adStep, adEarn, adCalls, adCache, adAccounts, adIds,
                   adRows>>
    /\ UNCHANGED <<aggVars, prVars, bdVars>>

\* client.fetch() returned: the records are converted and returned
\* (lines 197-211, 226-238)
IbReturn ==
    /\ adPc = "ib_fetch"
    /\ gwPc = "returned"
    /\ adOut' = IF adOp = "fetch_balances" THEN IbFetchBalances(gwBalances)
                ELSE IbFetchPositions(gwPositions)
    /\ adPc' = "returned"
    /\ UNCHANGED <<adStep, adEarn, adRaised, adCalls, adTk>>
    /\ UNCHANGED <<aggVars, gwVars, prVars, bdVars>>

\* client.fetch() raised BrokerError: the adapter method lets it through
IbRaise ==
    /\ adPc = "ib_fetch"
    /\ gwPc = "raised"
    /\ adPc' = "raised"
    /\ adRaised' = "BrokerError"
    /\ UNCHANGED <<adStep, adOut, adEarn, adCalls, adTk>>
    /\ UNCHANGED <<aggVars, gwVars, prVars, bdVars>>

IbNext ==
    \/ \E op \in IbOps : IbCall(op)
    \/ GwNext
    \/ IbReturn
    \/ IbRaise

IbSpecInit == IbInit /\ AggIdle /\ PrIdle /\ AdIdle /\ BdIdle

SpecIb == IbSpecInit /\ [][IbNext]_vars

\* the state of a client nothing has happened to yet
ClientUntouched ==
    /\ gwBalances = <<>>
    /\ net_liquidations = <<>>
    /\ gwPositions = <<>>
    /\ summary_done = FALSE
    /\ positions_done = FALSE
    /\ gwError = NoMsg
    /\ requested = <<>>
    /\ connected = FALSE

\* the records the client of the call in progress holds
ClientRecords == Len(gwBalances) + Len(net_liquidations) + Len(gwPositions)

\* C30: every fetch_balances / fetch_positions call of the gateway adapter
\* starts from a client with empty collections, unset completion signals and
\* an empty error slot, whatever the previous call left; so the client never
\* holds more records than callbacks were delivered during the call in
\* progress, a signal or an error held by the client was set by a callback of
\* that call, and what the call returns has no more records than that call's
\* callbacks delivered.
Thm_C30 ==
    /\ [](gwPc = "idle" => ClientUntouched)
    /\ [](ClientRecords <= gwDelivered)
    /\ []((summary_done \/ positions_done \/ gwError # NoMsg) => gwDelivered > 0)
    /\ [](adPc = "returned" => Len(adOut) <= gwDelivered)
    /\ [][adFetches' # adFetches
             => /\ adFetches' = adFetches + 1
                /\ gwBalances' = <<>> /\ net_liquidations' = <<>> /\ gwPositions' = <<>>
                /\ ~summary_done' /\ ~positions_done' /\ gwError' = NoMsg]_vars

\* a second call that returned one position after a first call
Wit_C30 ==
    /\ adFetches = 2
    /\ adPc = "returned"
    /\ adOp = "fetch_positions"
    /\ Len(adOut) = 1
    /\ gwDelivered = 2

\* a second call that starts clean
Wit_C30_second_start ==
    /\ adFetches = 2
    /\ adPc = "ib_fetch"
    /\ gwPc = "idle"
    /\ ClientUntouched

\* a second call that raised
Wit_C30_raised ==
    /\ adFetches = 2
    /\ adPc = "raised"
    /\ gwError # NoMsg

====
